---- MODULE Spec2Model ----
(***************************************************************************)
(* State-machine model of the nearbyindex heatmap job system:              *)
(*   - the job scheduler          (lib/jobs/scheduler.ts, src/unnamed/part_014) *)
(*   - the heatmap chunk processor (lib/jobs/heatmap-processor.ts)         *)
(*   - the worker loop             (scripts/worker.ts, current revision,   *)
(*                                  heatmap-processor.ts:327-406)          *)
(*   - the reset script            (scripts/reset-and-schedule-cancun.ts)  *)
(*   - the score engines           (lib/score/engine.ts,                   *)
(*                                  lib/jobs/batch-score-calculator.ts)    *)
(*   - the score route             (app/api/score/route.ts)                *)
(* The jobs and heat_cells tables are the shared state.  Every database    *)
(* statement a function awaits is one atomic step; what a function does    *)
(* between two awaits belongs to the step of the preceding await.          *)
(*                                                                         *)
(* Coordinates are integers in units of half a grid step (0.00125 deg),    *)
(* so HEATMAP_GRID_STEP is 2.  Times are minutes.                          *)
(*                                                                         *)
(* Specifications, all from the same actions:                              *)
(*   SpecSchedule  two API clients and the reset script, no worker         *)
(*   SpecWorker    one worker loop with kills, one client, the clock       *)
(*   SpecWorkers   two worker loops, one client                            *)
(*   SpecCancel    one worker loop, one client, the reset script           *)
(*   SpecLive      one worker loop with kills, fair, one client            *)
(*   SpecUpsert    the upsert statement on sets of rows, the clock         *)
(*   SpecMalformed one worker loop on a stored job without bounds          *)
(*   SpecCoverage  the score route with its auto-trigger, a worker         *)
(*   SpecGrid      one worker loop on two jobs of chosen bounds            *)
(*   SpecScore     the score route while POI queries can fail              *)
(*   SpecCompress  compressScore on the raw scores 0 .. MaxRawScore        *)
(*   SpecReclaim   two worker loops and the clock on two pending jobs      *)
(*   SpecCount     the POI counts of both engines at the points of an area *)
(*   SpecResume    one worker loop with kills, the clock, no failing write  *)
(*   SpecLoad      one worker loop whose bulk POI load can fail            *)
(***************************************************************************)
EXTENDS Integers, Sequences, FiniteSets, TLC

\* ---------------------------------------------------------------- bounds
MaxJobs == 2                \* rows the jobs table may hold
MaxNow == 11                \* the clock stops here
MAX_CONCURRENT_JOBS == 1    \* env MAX_CONCURRENT_JOBS (default 4)
CHUNK_SIZE == 3             \* env WORKER_CHUNK_SIZE (default 500)
BATCH_SIZE == 2             \* 50 in the source, scaled with CHUNK_SIZE
REGION_SIZE == 2            \* 0.15 deg in the source, scaled to the small grids
POI_BUFFER == 2             \* 1500 m in the source, scaled
SCORE_RADIUS == 2           \* largest category radius (below 1500 m), scaled

\* ------------------------------------------------------ program constants
STALE_JOB_MINUTES == 10
HEATMAP_GRID_STEP == 2

\* minutes the clock may advance in one step: exactly the stale threshold, and
\* one minute more
TickSteps == {STALE_JOB_MINUTES, STALE_JOB_MINUTES + 1}

Clients == {"c1", "c2"}
Workers == {"w1", "w2"}

NULL == -1                  \* SQL NULL / JS null for ids, times and indexes
NoCity == 0                 \* cityId null (serial ids start at 1)

\* JOB_STATUS
PENDING == "pending"
RUNNING == "running"
COMPLETED == "completed"
FAILED == "failed"
JOB_STATUS == {PENDING, RUNNING, COMPLETED, FAILED}

\* ------------------------------------------------------------- geometry
Bounds(a, b, c, d) == [minLat |-> a, maxLat |-> b, minLng |-> c, maxLng |-> d]
NoBounds == Bounds(0, NULL, 0, NULL)    \* the bounds argument left out

\* Math.ceil(x / y) and Math.floor(x / y) for y > 0
CeilDiv(x, y) == -((-x) \div y)
FloorDiv(x, y) == x \div y

\* static city configuration (lib/cities/bounds.ts), scaled
CITY_CONFIG == [cancun |-> Bounds(0, 8, 0, 1)]

getCityBounds(citySlug) ==
    IF citySlug \in DOMAIN CITY_CONFIG THEN CITY_CONFIG[citySlug] ELSE NoBounds

\* rows of the cities table: slug -> id
cities == [cancun |-> 1]

\* the (citySlug, bounds) arguments callers pass to scheduleHeatmapJob:
\* a configured city that has a cities row, and a city with neither
ScheduleArgs == {<<"cancun", NoBounds>>, <<"merida", Bounds(4, 8, 0, 1)>>,
                 <<"merida", NoBounds>>}

\* rows of the overture_pois table (static): <<lat, lng, category>>
overturePois == {<<2, 0, "supermarket">>, <<6, 6, "restaurant">>}

\* lib/score/categories.ts: three of the eight categories, weights times 2
categories == {"groceries", "restaurants", "transit"}
weight == [groceries |-> 3, restaurants |-> 2, transit |-> 3]
\* the categories the heatmap is computed from
DEFAULT_HEATMAP_CATEGORIES == {"groceries", "restaurants"}
overtureCategoryToCategoryId ==
    [supermarket |-> "groceries", restaurant |-> "restaurants"]

\* the points scheduleRegionalHeatmapJob is called for: inside the bounds of
\* cancun, far from every city, and far from every POI
QueryPoints == {<<2, 0>>, <<6, 6>>, <<6, 3>>}

snapToGrid(value, gridStep, roundUp) ==
    IF roundUp THEN CeilDiv(value, gridStep) * gridStep
               ELSE FloorDiv(value, gridStep) * gridStep

\* The loop variables of generateGridPoints are doubles and gridStep (0.0025)
\* is not a binary fraction, so `lat += gridStep` rounds on every addition.
\* A loop variable is modelled as the pair v, e: the grid multiple it stands
\* for and the signed rounding error of the running sum.  In IEEE doubles, at
\* the latitudes of the configured city (20.8 .. 21.4) the sum lies above the
\* exact multiple after three additions for every start and after one or two
\* for many; at its longitudes (-87.2 .. -86.5) the sum never lies above it.
\* The short axes of the model stand for the long ones of the code, so every
\* latitude addition rounds up and every longitude addition rounds down.
LatAddError == 1
LngAddError == -1

\* the loop condition `lat <= endLat` on a running sum
LoopLeq(v, e, end) == v < end \/ (v = end /\ e <= 0)

\* the values pushed for one axis, in loop order; the pushed value is
\* Math.round(lat * 100000) / 100000, which drops the rounding error
RECURSIVE AxisFrom(_, _, _, _, _)
AxisFrom(v, e, end, gridStep, addError) ==
    IF LoopLeq(v, e, end)
    THEN <<v>> \o AxisFrom(v + gridStep, e + addError, end, gridStep, addError)
    ELSE <<>>

\* generateGridPoints: sequence of [lat, lng]; position k holds index k-1
generateGridPoints(bounds, gridStep) ==
    LET lats == AxisFrom(snapToGrid(bounds.minLat, gridStep, TRUE), 0,
                         snapToGrid(bounds.maxLat, gridStep, FALSE),
                         gridStep, LatAddError)
        lngs == AxisFrom(snapToGrid(bounds.minLng, gridStep, TRUE), 0,
                         snapToGrid(bounds.maxLng, gridStep, FALSE),
                         gridStep, LngAddError)
    IN  [k \in 1..(Len(lats) * Len(lngs)) |->
            [lat |-> lats[((k - 1) \div Len(lngs)) + 1],
             lng |-> lngs[((k - 1) % Len(lngs)) + 1]]]

\* totalItems as the scheduler computes it
TotalItems(bounds) ==
    CeilDiv(bounds.maxLat - bounds.minLat, HEATMAP_GRID_STEP)
      * CeilDiv(bounds.maxLng - bounds.minLng, HEATMAP_GRID_STEP)

Min(a, b) == IF a < b THEN a ELSE b

\* ----------------------------------------------------------------- state
VARIABLES
    jobs,          \* the jobs table: sequence of rows, id = position
    heatCells,     \* the heat_cells table: set of rows
    now,           \* the database / wall clock, minutes
    cpc,           \* per client: position inside a scheduler call
    call,          \* per client: arguments and locals of the call in progress
    ret,           \* what the step just taken returned to its caller, if anything
    wpc,           \* per worker: position inside runWorker
    runningJobs,   \* per worker: the rows getAllRunningJobs returned (local copy)
    pendingJobs,   \* per worker: ids getNextPendingJobs returned, not yet marked
    tasks,         \* per worker: the processJob calls of the current Promise.all
    cachedCalculator, \* per worker: the module-level calculator cache
    apc,           \* position inside the reset script
    progressAt,    \* history: per job, when updateJobProgress last wrote it
    wrote,         \* history: <<job id, grid index>> the step just taken upserted
    seq            \* history: two scheduleHeatmapJob calls made in sequence

vars == <<jobs, heatCells, now, cpc, call, ret, wpc, runningJobs, pendingJobs,
          tasks, cachedCalculator, apc, progressAt, wrote, seq>>

schedVars == <<cpc, call, seq>>
workerVars == <<wpc, runningJobs, pendingJobs, tasks, cachedCalculator>>

JobIds == 1..Len(jobs)
IsActive(j) == jobs[j].status \in {PENDING, RUNNING}

NoCall == [kind |-> "none", slug |-> "", bounds |-> NoBounds, cityId |-> NoCity,
           lat |-> 0, lng |-> 0]
\* ret: kind none / null / job / count; jobId holds the job id of a job
\* result and the count of a count result
NoRet == [kind |-> "none", client |-> "", fn |-> "", slug |-> "", jobId |-> NULL,
          status |-> "", isNew |-> FALSE]
NoSeq == [client |-> "", stage |-> "none", slug |-> "", jobId |-> NULL]
NoTasks == [j \in {} |-> 0]
\* cachedCalculator = null
NoCalculator == [boundsKey |-> NoBounds, pois |-> {}]

Init ==
    /\ jobs = <<>>
    /\ heatCells = {}
    /\ now = 0
    /\ cpc = [c \in Clients |-> "idle"]
    /\ call = [c \in Clients |-> NoCall]
    /\ ret = NoRet
    /\ wpc = [w \in Workers |-> "reset"]
    /\ runningJobs = [w \in Workers |-> {}]
    /\ pendingJobs = [w \in Workers |-> <<>>]
    /\ tasks = [w \in Workers |-> NoTasks]
    /\ cachedCalculator = [w \in Workers |-> NoCalculator]
    /\ apc = "idle"
    /\ progressAt = <<>>
    /\ wrote = {}
    /\ seq = NoSeq

\* ------------------------------------------------------------- scheduler
\* a new row of the jobs table (the insert of both schedule functions)
NewJob(cityId, bounds) ==
    [status |-> PENDING,
     cityId |-> cityId,
     progress |-> 0,
     totalItems |-> TotalItems(bounds),
     error |-> "",
     metadata |-> [bounds |-> bounds, gridStep |-> HEATMAP_GRID_STEP,
                   lastProcessedIndex |-> 0],
     startedAt |-> NULL]

\* what a schedule function returns: null, or {jobId, status, isNew}
RetNull(c, fn, slug) ==
    [kind |-> "null", client |-> c, fn |-> fn, slug |-> slug, jobId |-> NULL,
     status |-> "", isNew |-> FALSE]
\* processHeatmapChunk returns {processed, errors, hasMore, progress}
RetChunk(w, jobId, processed, errors, hasMore, progress) ==
    [kind |-> "chunk", client |-> w, fn |-> "processHeatmapChunk", slug |-> "",
     jobId |-> jobId, status |-> "", isNew |-> FALSE, processed |-> processed,
     errors |-> errors, hasMore |-> hasMore, progress |-> progress]
\* resetStaleJobs returns the number of rows it updated
RetCount(w, n) ==
    [kind |-> "count", client |-> w, fn |-> "resetStaleJobs", slug |-> "", jobId |-> n,
     status |-> "", isNew |-> FALSE]
RetJob(c, fn, slug, jobId, status, isNew) ==
    [kind |-> "job", client |-> c, fn |-> fn, slug |-> slug, jobId |-> jobId,
     status |-> status, isNew |-> isNew]

\* history of two calls made in sequence: one sequence is followed at a
\* time.  Client c enters scheduleHeatmapJob: the call is the second of the
\* sequence when c's previous call, for the same slug, inserted a job; it
\* starts a sequence when none is followed or the one followed is c's own.
\* Calls of other clients leave the sequence alone.
SeqBegin(c, citySlug) ==
    IF seq.client = c /\ seq.stage = "between" /\ seq.slug = citySlug
    THEN [seq EXCEPT !.stage = "second"]
    ELSE IF seq.stage = "none" \/ seq.client = c
         THEN [client |-> c, stage |-> "first", slug |-> citySlug, jobId |-> NULL]
         ELSE seq
\* c's call ends without an insert
SeqEnd(c) == IF seq.client = c THEN NoSeq ELSE seq
SeqInserted(c, jobId) ==
    IF seq.client = c /\ seq.stage = "first"
    THEN [seq EXCEPT !.stage = "between", !.jobId = jobId]
    ELSE SeqEnd(c)

\* the WHERE clause of the dedup query of scheduleHeatmapJob.  Every row has
\* type heatmap_compute, so the type test is left out.
ExistingJobMatches(j, cityId) ==
    /\ jobs[j].status = PENDING \/ jobs[j].status = RUNNING
    /\ IF cityId # NoCity THEN jobs[j].cityId = cityId ELSE TRUE
    /\ jobs[j].metadata.gridStep = HEATMAP_GRID_STEP

\* scheduleHeatmapJob, up to the dedup query: resolve the bounds, read the
\* city id.  The cities table is never written, so its read is not a step of
\* its own.
ScheduleBegin(c, citySlug, bounds) ==
    /\ cpc[c] = "idle"
    /\ LET jobBounds == IF bounds # NoBounds THEN bounds ELSE getCityBounds(citySlug)
           cityId == IF citySlug \in DOMAIN cities THEN cities[citySlug] ELSE NoCity
       IN  IF jobBounds = NoBounds
           THEN /\ ret' = RetNull(c, "scheduleHeatmapJob", citySlug)
                /\ seq' = SeqEnd(c)
                /\ UNCHANGED <<cpc, call>>
           ELSE /\ cpc' = [cpc EXCEPT ![c] = "check"]
                /\ call' = [call EXCEPT ![c] =
                              [kind |-> "city", slug |-> citySlug, bounds |-> jobBounds,
                               cityId |-> cityId, lat |-> 0, lng |-> 0]]
                /\ seq' = SeqBegin(c, citySlug)
                /\ ret' = NoRet
    /\ wrote' = {}
    /\ UNCHANGED <<jobs, heatCells, now, workerVars, apc, progressAt>>

\* the dedup query (LIMIT 1 with no ORDER BY: any matching row) and the
\* return of the existing job
ScheduleCheck(c) ==
    /\ cpc[c] = "check"
    /\ LET existingJob == {j \in JobIds : ExistingJobMatches(j, call[c].cityId)}
       IN  IF existingJob # {}
           THEN /\ \E j \in existingJob :
                      ret' = RetJob(c, "scheduleHeatmapJob", call[c].slug, j,
                                    jobs[j].status, FALSE)
                /\ cpc' = [cpc EXCEPT ![c] = "idle"]
                /\ call' = [call EXCEPT ![c] = NoCall]
                /\ seq' = SeqEnd(c)
           ELSE /\ cpc' = [cpc EXCEPT ![c] = "insert"]
                /\ seq' = seq
                /\ ret' = NoRet
                /\ UNCHANGED call
    /\ wrote' = {}
    /\ UNCHANGED <<jobs, heatCells, now, workerVars, apc, progressAt>>

\* the insert of the new pending job
ScheduleInsert(c) ==
    /\ cpc[c] = "insert"
    /\ Len(jobs) < MaxJobs
    /\ jobs' = Append(jobs, NewJob(call[c].cityId, call[c].bounds))
    /\ progressAt' = Append(progressAt, NULL)
    /\ ret' = RetJob(c, "scheduleHeatmapJob", call[c].slug, Len(jobs) + 1, PENDING, TRUE)
    /\ cpc' = [cpc EXCEPT ![c] = "idle"]
    /\ call' = [call EXCEPT ![c] = NoCall]
    /\ seq' = SeqInserted(c, Len(jobs) + 1)
    /\ wrote' = {}
    /\ UNCHANGED <<heatCells, now, workerVars, apc>>

\* hasOverlappingJob
BoundsContain(b, lat, lng) ==
    lat >= b.minLat /\ lat <= b.maxLat /\ lng >= b.minLng /\ lng <= b.maxLng

hasOverlappingJob(lat, lng) ==
    \E j \in JobIds :
        /\ jobs[j].status = PENDING \/ jobs[j].status = RUNNING
        /\ jobs[j].metadata.bounds # NoBounds
        /\ BoundsContain(jobs[j].metadata.bounds, lat, lng)

\* hasPoisInRegion with the default radius REGION_SIZE / 2
hasPoisInRegion(lat, lng) ==
    LET radiusDegrees == REGION_SIZE \div 2
    IN  \E p \in overturePois :
            /\ p[1] >= lat - radiusDegrees /\ p[1] <= lat + radiusDegrees
            /\ p[2] >= lng - radiusDegrees /\ p[2] <= lng + radiusDegrees

RegionBounds(lat, lng) ==
    LET halfSize == REGION_SIZE \div 2
    IN  Bounds(lat - halfSize, lat + halfSize, lng - halfSize, lng + halfSize)

\* scheduleRegionalHeatmapJob is entered; its first statement is the query of
\* hasOverlappingJob
RegionalBegin(c, lat, lng) ==
    /\ cpc[c] = "idle"
    /\ cpc' = [cpc EXCEPT ![c] = "overlap"]
    /\ call' = [call EXCEPT ![c] =
                  [kind |-> "region", slug |-> "", bounds |-> RegionBounds(lat, lng),
                   cityId |-> NoCity, lat |-> lat, lng |-> lng]]
    /\ seq' = SeqEnd(c)
    /\ ret' = NoRet
    /\ wrote' = {}
    /\ UNCHANGED <<jobs, heatCells, now, workerVars, apc, progressAt>>

\* the overlap query, then the POI existence query (the overture_pois table
\* is never written, so its read is not a step of its own)
RegionalCheck(c) ==
    /\ cpc[c] = "overlap"
    /\ IF hasOverlappingJob(call[c].lat, call[c].lng)
          \/ ~hasPoisInRegion(call[c].lat, call[c].lng)
       THEN /\ ret' = RetNull(c, "scheduleRegionalHeatmapJob", "")
            /\ cpc' = [cpc EXCEPT ![c] = "idle"]
            /\ call' = [call EXCEPT ![c] = NoCall]
       ELSE /\ cpc' = [cpc EXCEPT ![c] = "insertRegion"]
            /\ ret' = NoRet
            /\ UNCHANGED call
    /\ seq' = seq
    /\ wrote' = {}
    /\ UNCHANGED <<jobs, heatCells, now, workerVars, apc, progressAt>>

RegionalInsert(c) ==
    /\ cpc[c] = "insertRegion"
    /\ Len(jobs) < MaxJobs
    /\ jobs' = Append(jobs, NewJob(NoCity, call[c].bounds))
    /\ progressAt' = Append(progressAt, NULL)
    /\ ret' = RetJob(c, "scheduleRegionalHeatmapJob", "", Len(jobs) + 1, PENDING, TRUE)
    /\ cpc' = [cpc EXCEPT ![c] = "idle"]
    /\ call' = [call EXCEPT ![c] = NoCall]
    /\ seq' = seq
    /\ wrote' = {}
    /\ UNCHANGED <<heatCells, now, workerVars, apc>>

\* ------------------------------------------------------- scheduler: worker side
\* the columns of a job row a worker keeps in its local copy
Snap(j) == [id |-> j, cityId |-> jobs[j].cityId, metadata |-> jobs[j].metadata]

getAllRunningJobs == {Snap(j) : j \in {k \in JobIds : jobs[k].status = RUNNING}}

\* the first n elements of a set of ids in ascending order (ORDER BY createdAt
\* LIMIT n; rows are created in id order)
RECURSIVE FirstN(_, _)
FirstN(S, n) ==
    IF S = {} \/ n <= 0 THEN <<>>
    ELSE LET m == CHOOSE x \in S : \A y \in S : x <= y
         IN  <<m>> \o FirstN(S \ {m}, n - 1)

\* variant: the query without its LIMIT
getNextPendingJobsNoLimit(limit) ==
    FirstN({j \in JobIds : jobs[j].status = PENDING}, Len(jobs))

getNextPendingJobs(limit) ==
    FirstN({j \in JobIds : jobs[j].status = PENDING}, limit)

getMaxConcurrentJobs == MAX_CONCURRENT_JOBS

\* variant: markJobRunning that sets the status and leaves started_at alone
markJobRunningKeepsStartedAt(jobId) ==
    [jobs EXCEPT ![jobId].status = RUNNING]

\* UPDATE jobs SET status = 'running', started_at = now() WHERE id = jobId
markJobRunning(jobId) ==
    [jobs EXCEPT ![jobId].status = RUNNING, ![jobId].startedAt = now]

\* UPDATE jobs SET status = 'completed' WHERE id = jobId (completedAt is not
\* read anywhere and is left out of the row)
markJobCompleted(jobId) ==
    [jobs EXCEPT ![jobId].status = COMPLETED]

\* markJobFailed that records the error and leaves the status as it is
markJobFailedKeepsStatus(jobId, error) ==
    [jobs EXCEPT ![jobId].error = error]

markJobFailed(jobId, error) ==
    [jobs EXCEPT ![jobId].status = FAILED, ![jobId].error = error]

\* variant: a job started exactly STALE_JOB_MINUTES ago counts as stale
IsStaleInclusive(j) ==
    /\ jobs[j].status = RUNNING
    /\ jobs[j].startedAt # NULL
    /\ jobs[j].startedAt <= now - STALE_JOB_MINUTES

\* the WHERE clause of resetStaleJobs; a NULL startedAt compares as unknown
IsStale(j) ==
    /\ jobs[j].status = RUNNING
    /\ jobs[j].startedAt # NULL
    /\ jobs[j].startedAt < now - STALE_JOB_MINUTES

\* variant: the reset leaves startedAt as it is
resetStaleJobsKeepStartedAt ==
    [j \in JobIds |->
        IF IsStale(j) THEN [jobs[j] EXCEPT !.status = PENDING] ELSE jobs[j]]

\* variant: the reset also restarts the grid
resetStaleJobsRestart ==
    [j \in JobIds |->
        IF IsStale(j)
        THEN [jobs[j] EXCEPT !.status = PENDING, !.startedAt = NULL,
                             !.progress = 0, !.metadata.lastProcessedIndex = 0]
        ELSE jobs[j]]

\* variant: the reset without the status condition of its WHERE clause
resetStaleJobsAnyStatus ==
    [j \in JobIds |->
        IF jobs[j].startedAt # NULL /\ jobs[j].startedAt < now - STALE_JOB_MINUTES
        THEN [jobs[j] EXCEPT !.status = PENDING, !.startedAt = NULL]
        ELSE jobs[j]]

resetStaleJobs ==
    [j \in JobIds |->
        IF IsStale(j)
        THEN [jobs[j] EXCEPT !.status = PENDING, !.startedAt = NULL]
        ELSE jobs[j]]

\* { ...currentMetadata, ...metadata }: every key of the second wins
MergeMetadata(currentMetadata, metadata) ==
    [k \in DOMAIN currentMetadata \cup DOMAIN metadata |->
        IF k \in DOMAIN metadata THEN metadata[k] ELSE currentMetadata[k]]

\* ------------------------------------------------------- chunk processor
\* Math.round(num / den) for num >= 0, den > 0
RoundDiv(num, den) == (2 * num + den) \div (2 * den)

\* createBatchCalculator: the POIs loaded for a job, those inside the bounds
\* expanded by max(buffer, largest category radius) on every side
ExpandedBounds(bounds, margin) ==
    Bounds(bounds.minLat - margin, bounds.maxLat + margin,
           bounds.minLng - margin, bounds.maxLng + margin)

\* variant: the POIs are loaded for the bounds alone, without the buffer
createBatchCalculatorNoBuffer(bounds) ==
    {p \in overturePois : BoundsContain(bounds, p[1], p[2])}

createBatchCalculator(bounds) ==
    LET margin == IF POI_BUFFER > SCORE_RADIUS THEN POI_BUFFER ELSE SCORE_RADIUS
    IN  {p \in overturePois : BoundsContain(ExpandedBounds(bounds, margin), p[1], p[2])}

\* Math.exp(-num / den) times ExpScale for 0 <= num / den <= 1, by the
\* alternating series summed to ExpTerms terms in integers; for the raw
\* scores 61 .. 224 the rounded result of compressScore is that of the code
ExpScale == 1000000
ExpTerms == 12
RECURSIVE ExpNegFrom(_, _, _, _)
ExpNegFrom(term, num, den, k) ==
    IF k > ExpTerms THEN 0
    ELSE LET next == (term * num) \div (den * k)
         IN  (IF k % 2 = 0 THEN next ELSE -next) + ExpNegFrom(next, num, den, k + 1)
ExpNeg(num, den) == ExpScale + ExpNegFrom(ExpScale, num, den, 1)

\* compressScore: raw scores up to 60 pass, higher ones follow
\* 60 + 40 * (1 - exp(-(rawScore - 60) / 50)), rounded and capped at 100
compressScore(rawScore) ==
    IF rawScore <= 60 THEN rawScore
    ELSE LET compressed ==
                 60 * ExpScale + 40 * (ExpScale - ExpNeg(rawScore - 60, 50))
         IN  Min(100, RoundDiv(compressed, ExpScale))

\* the sum of f over the finite set S
RECURSIVE SumOver(_, _)
SumOver(S, f) ==
    IF S = {} THEN 0
    ELSE LET x == CHOOSE y \in S : TRUE IN f[x] + SumOver(S \ {x}, f)

\* the bounding box filter: the POIs of a category whose latitude and
\* longitude are within latDelta and lngDelta of the point.  Both deltas are
\* the radius in degrees, SCORE_RADIUS in the units of the model.
withinBox(pois, lat, lng, categoryId) ==
    {p \in pois :
        /\ overtureCategoryToCategoryId[p[3]] = categoryId
        /\ p[1] >= lat - SCORE_RADIUS /\ p[1] <= lat + SCORE_RADIUS
        /\ p[2] >= lng - SCORE_RADIUS /\ p[2] <= lng + SCORE_RADIUS}

\* calculateDistance (haversine), squared: over the few hundred metres of a
\* radius the distance is that of the plane
calculateDistanceSquared(lat1, lng1, lat2, lng2) ==
    (lat2 - lat1) * (lat2 - lat1) + (lng2 - lng1) * (lng2 - lng1)

\* the calculator's POIs of a category within the radius of a point: the
\* bounding box filter, then distances.filter((d) => d <= radius)
withinRadius(pois, lat, lng, categoryId) ==
    {p \in withinBox(pois, lat, lng, categoryId) :
        calculateDistanceSquared(lat, lng, p[1], p[2]) <= SCORE_RADIUS * SCORE_RADIUS}

\* the raw score of a category with count > 0 POIs in range: count score,
\* distance score and density bonus stand as POI_SCORE points per POI
POI_SCORE == 50
rawCategoryScore(count) == POI_SCORE * count

\* variant: a category without a POI in range scores as one with a single POI
calculateCategoryScoreOfOne(pois, lat, lng, categoryId) ==
    LET count == Cardinality(withinRadius(pois, lat, lng, categoryId))
    IN  rawCategoryScore(IF count = 0 THEN 1 ELSE count)

\* the calculator's score of one category at a point
calculateCategoryScore(pois, lat, lng, categoryId) ==
    LET count == Cardinality(withinRadius(pois, lat, lng, categoryId))
    IN  IF count = 0 THEN 0 ELSE rawCategoryScore(count)

\* the calculator's score of a point: the weighted average of the category
\* scores, rounded and compressed
calculateScore(pois, lat, lng) ==
    LET weightedSum ==
            SumOver(DEFAULT_HEATMAP_CATEGORIES,
                    [id \in DEFAULT_HEATMAP_CATEGORIES |->
                        calculateCategoryScore(pois, lat, lng, id) * weight[id]])
        totalWeight == SumOver(DEFAULT_HEATMAP_CATEGORIES, weight)
    IN  compressScore(RoundDiv(weightedSum, totalWeight))

\* the rest of getBatchCalculator, after the await of createBatchCalculator:
\* the new calculator, which replaces the cached one
loadBatchCalculator(bounds) ==
    [boundsKey |-> bounds, pois |-> createBatchCalculator(bounds)]

\* variant: getBatchCalculator that never looks at the cache
getBatchCalculatorNoCache(w, bounds) == NoCalculator

\* getBatchCalculator in worker w, up to its await: the cached calculator
\* when its key is the key of these bounds; else NoCalculator, which stands
\* for the load that is awaited.  The key is the string of the four bounds,
\* which is the same for two bounds exactly when they are equal.
getBatchCalculator(w, bounds) ==
    IF cachedCalculator[w] # NoCalculator /\ cachedCalculator[w].boundsKey = bounds
    THEN cachedCalculator[w]
    ELSE NoCalculator

\* variant: the slice never takes in the last point of the grid
EndIndexShort(metadata, chunkSize) ==
    Min((IF metadata.lastProcessedIndex = NULL THEN 0 ELSE metadata.lastProcessedIndex)
          + chunkSize,
        Len(generateGridPoints(metadata.bounds, metadata.gridStep)) - 1)

\* variant: the chunk starts one point after the persisted index
StartIndexSkips(metadata) ==
    IF metadata.lastProcessedIndex = NULL THEN 0 ELSE metadata.lastProcessedIndex + 1

StartIndex(metadata) ==
    IF metadata.lastProcessedIndex = NULL THEN 0 ELSE metadata.lastProcessedIndex
EndIndex(metadata, chunkSize) ==
    Min(StartIndex(metadata) + chunkSize,
        Len(generateGridPoints(metadata.bounds, metadata.gridStep)))
\* pointsToProcess.length
SliceLen(metadata, chunkSize) ==
    IF EndIndex(metadata, chunkSize) > StartIndex(metadata)
    THEN EndIndex(metadata, chunkSize) - StartIndex(metadata) ELSE 0

\* variant: a batch leaves out the last point of its part of the slice
BatchIndexesOneShort(metadata, chunkSize, i) ==
    {k \in 0..(EndIndex(metadata, chunkSize) - 2) :
        /\ k >= StartIndex(metadata) + i
        /\ k < StartIndex(metadata) + i + BATCH_SIZE}

\* the grid indexes (0-based) of the batch that starts at offset i of the slice
BatchIndexes(metadata, chunkSize, i) ==
    {k \in 0..(EndIndex(metadata, chunkSize) - 1) :
        /\ k >= StartIndex(metadata) + i
        /\ k < StartIndex(metadata) + i + BATCH_SIZE}

\* the rows one batch inserts for the grid indexes in ok
CellRows(job, ok, pois) ==
    LET allPoints == generateGridPoints(job.metadata.bounds, job.metadata.gridStep)
    IN  {[lat |-> allPoints[k + 1].lat, lng |-> allPoints[k + 1].lng,
          gridStep |-> job.metadata.gridStep,
          score |-> calculateScore(pois, allPoints[k + 1].lat, allPoints[k + 1].lng),
          cityId |-> job.cityId, computedAt |-> now] : k \in ok}

SameKey(a, b) == a.lat = b.lat /\ a.lng = b.lng /\ a.gridStep = b.gridStep

\* Upsert with the conflict clause left to do nothing: the stored row is kept
UpsertDoNothing(cells, rows) ==
    cells \cup {r \in rows : ~\E c \in cells : SameKey(c, r)}

\* INSERT ... ON CONFLICT (lat, lng, grid_step) DO UPDATE SET score, computed_at
Upsert(cells, rows) ==
    {IF \E r \in rows : SameKey(c, r)
     THEN [c EXCEPT !.score = (CHOOSE r \in rows : SameKey(c, r)).score,
                    !.computedAt = (CHOOSE r \in rows : SameKey(c, r)).computedAt]
     ELSE c : c \in cells}
    \cup {r \in rows : ~\E c \in cells : SameKey(c, r)}


\* the scores a point can get as the POI table changes between two runs
ScoreInputs == {0, 40, 80}
RowInputBounds == Bounds(0, 4, 0, 1)
\* the values of one insert statement: rows of distinct grid points of one grid
RowInputs ==
    LET points == generateGridPoints(RowInputBounds, HEATMAP_GRID_STEP)
        keys == {<<points[k].lat, points[k].lng>> : k \in DOMAIN points}
        Rows(f) == {[lat |-> key[1], lng |-> key[2], gridStep |-> HEATMAP_GRID_STEP,
                     score |-> f[key], cityId |-> NoCity, computedAt |-> now] :
                    key \in DOMAIN f}
    IN  UNION {{Rows(f) : f \in [ks -> ScoreInputs]} : ks \in (SUBSET keys) \ {{}}}

\* the insert ... onConflictDoUpdate statement of a batch, on its own; here
\* wrote keeps the stored rows the statement found in conflict, under job NULL
InsertHeatCells(rows) ==
    /\ heatCells' = Upsert(heatCells, rows)
    /\ ret' = NoRet
    /\ wrote' = {<<NULL, c>> : c \in {c \in heatCells : \E r \in rows : SameKey(c, r)}}
    /\ UNCHANGED <<jobs, now, schedVars, workerVars, apc, progressAt>>

\* processJob -> processHeatmapChunk, up to its first database statement.
\* pc is the statement the call is at, i the batch loop variable, processed
\* and errors its counters, more the hasMore it returned; visited and thrown
\* are history: the grid indexes scored so far, and those whose scoring threw.
\* calculator is the local batchCalculator: every processJob of a Promise.all
\* runs up to its first await when the round starts, so each looks at the
\* cache as the round finds it.
InitialTask(w, job) ==
    [pc |-> IF job.metadata.bounds = NoBounds THEN "fail"
            ELSE IF SliceLen(job.metadata, CHUNK_SIZE) > 0 THEN "batch"
            ELSE "progress",
     i |-> 0, more |-> FALSE, processed |-> 0, errors |-> 0, visited |-> {},
     thrown |-> {},
     calculator |-> IF job.metadata.bounds = NoBounds THEN NoCalculator
                    ELSE getBatchCalculator(w, job.metadata.bounds)]

StartTasks(w, rj) ==
    [j \in {s.id : s \in rj} |-> InitialTask(w, CHOOSE s \in rj : s.id = j)]

\* ------------------------------------------------- scheduler: auto-trigger
\* a heat cell of the standard grid step within one grid step of the point
hasHeatmapCoverage(lat, lng) ==
    \E c \in heatCells :
        /\ c.lat >= lat - HEATMAP_GRID_STEP /\ c.lat <= lat + HEATMAP_GRID_STEP
        /\ c.lng >= lng - HEATMAP_GRID_STEP /\ c.lng <= lng + HEATMAP_GRID_STEP
        /\ c.gridStep = HEATMAP_GRID_STEP

\* ---- the point engine (lib/score/engine.ts)
\* a rejected promise
Rejected == [rejected |-> TRUE]

\* the POI provider's answer to the query of one category: the rows inside
\* the bounding box, each with its distance; no row is dropped for its
\* distance (the LIMIT 100 of the query is not reached by the POI table here)
queryPOIs(lat, lng, categoryId) == withinBox(overturePois, lat, lng, categoryId)

\* the engine's score of one category from the POIs its query returned
engineCategoryScore(count) ==
    IF count = 0 THEN 0 ELSE Min(100, rawCategoryScore(count))

\* the ScoreResult built from the queries of the categories in answered
ScoreResult(lat, lng, answered) ==
    LET result == [id \in answered |->
                      LET count == Cardinality(queryPOIs(lat, lng, id))
                      IN  [score |-> engineCategoryScore(count), count |-> count]]
        weightedSum == SumOver(answered,
                               [id \in answered |-> result[id].score * weight[id]])
    IN  [lat |-> lat, lng |-> lng,
         overall |-> RoundDiv(weightedSum, SumOver(categories, weight)),
         categories |-> result]

\* variant: the queries are awaited one by one and a failed one is skipped
engineCalculateScorePartial(lat, lng, failed) ==
    ScoreResult(lat, lng, categories \ failed)

\* calculateScore of the engine: one query per category, awaited with
\* Promise.all, which rejects when a query of the set failed rejects
engineCalculateScore(lat, lng, failed) ==
    IF failed # {} THEN Rejected ELSE ScoreResult(lat, lng, categories)

\* ---- the score route
\* the response of GET /api/score, and the settling of the promise of
\* ensureHeatmapCoverage: logged is the console.error of its catch block, at
\* the statement the call ended at
\* failed: the categories whose POI query failed in the request
RetScore(c, score, failed) ==
    [kind |-> "score", client |-> c, fn |-> "GET /api/score", slug |-> "",
     jobId |-> NULL, status |-> "200", isNew |-> FALSE, score |-> score,
     failed |-> failed]
RetError(c, failed) ==
    [kind |-> "error", client |-> c, fn |-> "GET /api/score", slug |-> "",
     jobId |-> NULL, status |-> "500", isNew |-> FALSE, failed |-> failed]
RetSettled(c, outcome, threw, at) ==
    [kind |-> "settled", client |-> c, fn |-> "ensureHeatmapCoverage", slug |-> "",
     jobId |-> NULL, status |-> outcome, isNew |-> FALSE, logged |-> threw, at |-> at]

\* ensureHeatmapCoverage with its try / catch taken away
ensureOutcomeNoCatch(threw) == IF threw THEN "rejected" ELSE "resolved"

\* how the promise of ensureHeatmapCoverage settles when its body threw or
\* not: the catch block logs the error and returns
ensureOutcome(threw) == "resolved"

\* the call ends: its promise settles
EnsureSettle(c, threw) ==
    /\ ret' = RetSettled(c, ensureOutcome(threw), threw, cpc[c])
    /\ cpc' = [cpc EXCEPT ![c] = "idle"]
    /\ call' = [call EXCEPT ![c] = NoCall]

\* GET /api/score: the score is computed, ensureHeatmapCoverage is called and
\* not awaited, the response is returned.  atCall is history: the three
\* conditions of the auto-trigger as they are when the call is made.
EnsureBegin(c, lat, lng, failed) ==
    /\ cpc[c] = "idle"
    /\ LET score == engineCalculateScore(lat, lng, failed)
       IN  IF score = Rejected
           THEN /\ ret' = RetError(c, failed)
                /\ UNCHANGED <<cpc, call>>
           ELSE /\ cpc' = [cpc EXCEPT ![c] = "coverage"]
                /\ call' = [call EXCEPT ![c] =
                      [kind |-> "ensure", slug |-> "",
                       bounds |-> RegionBounds(lat, lng),
                       cityId |-> NoCity, lat |-> lat, lng |-> lng,
                       atCall |-> [noCoverage |-> ~hasHeatmapCoverage(lat, lng),
                                   noOverlap |-> ~hasOverlappingJob(lat, lng),
                                   hasPois |-> hasPoisInRegion(lat, lng)]]]
                /\ ret' = RetScore(c, score, failed)
    /\ seq' = SeqEnd(c)
    /\ wrote' = {}
    /\ UNCHANGED <<jobs, heatCells, now, workerVars, apc, progressAt>>

\* the coverage query; dbFails is a query that throws
EnsureCoverage(c, dbFails) ==
    /\ cpc[c] = "coverage"
    /\ IF dbFails
       THEN EnsureSettle(c, TRUE)
       ELSE IF hasHeatmapCoverage(call[c].lat, call[c].lng)
            THEN EnsureSettle(c, FALSE)
            ELSE /\ cpc' = [cpc EXCEPT ![c] = "ensureOverlap"]
                 /\ ret' = NoRet
                 /\ UNCHANGED call
    /\ seq' = seq
    /\ wrote' = {}
    /\ UNCHANGED <<jobs, heatCells, now, workerVars, apc, progressAt>>

\* scheduleRegionalHeatmapJob inside the try block: the overlap query
EnsureOverlap(c, dbFails) ==
    /\ cpc[c] = "ensureOverlap"
    /\ IF dbFails
       THEN EnsureSettle(c, TRUE)
       ELSE IF hasOverlappingJob(call[c].lat, call[c].lng)
            THEN EnsureSettle(c, FALSE)
            ELSE /\ cpc' = [cpc EXCEPT ![c] = "ensurePois"]
                 /\ ret' = NoRet
                 /\ UNCHANGED call
    /\ seq' = seq
    /\ wrote' = {}
    /\ UNCHANGED <<jobs, heatCells, now, workerVars, apc, progressAt>>

\* the POI existence query
EnsurePois(c, dbFails) ==
    /\ cpc[c] = "ensurePois"
    /\ IF dbFails
       THEN EnsureSettle(c, TRUE)
       ELSE IF ~hasPoisInRegion(call[c].lat, call[c].lng)
            THEN EnsureSettle(c, FALSE)
            ELSE /\ cpc' = [cpc EXCEPT ![c] = "ensureInsert"]
                 /\ ret' = NoRet
                 /\ UNCHANGED call
    /\ seq' = seq
    /\ wrote' = {}
    /\ UNCHANGED <<jobs, heatCells, now, workerVars, apc, progressAt>>

\* the insert of the regional job
EnsureInsert(c, dbFails) ==
    /\ cpc[c] = "ensureInsert"
    /\ Len(jobs) < MaxJobs
    /\ IF dbFails
       THEN UNCHANGED <<jobs, progressAt>>
       ELSE /\ jobs' = Append(jobs, NewJob(NoCity, call[c].bounds))
            /\ progressAt' = Append(progressAt, NULL)
    /\ EnsureSettle(c, dbFails)
    /\ seq' = seq
    /\ wrote' = {}
    /\ UNCHANGED <<heatCells, now, workerVars, apc>>

EnsureStep(C, F) ==
    \/ \E c \in C, p \in QueryPoints, failed \in F :
           EnsureBegin(c, p[1], p[2], failed)
    \/ \E c \in C, dbFails \in BOOLEAN : EnsureCoverage(c, dbFails)
    \/ \E c \in C, dbFails \in BOOLEAN : EnsureOverlap(c, dbFails)
    \/ \E c \in C, dbFails \in BOOLEAN : EnsurePois(c, dbFails)
    \/ \E c \in C, dbFails \in BOOLEAN : EnsureInsert(c, dbFails)

\* ------------------------------------------------------------ worker loop
\* the worker sleeps and starts its next poll cycle
ToSleep(w) ==
    /\ wpc' = [wpc EXCEPT ![w] = "reset"]
    /\ runningJobs' = [runningJobs EXCEPT ![w] = {}]
    /\ tasks' = [tasks EXCEPT ![w] = NoTasks]

\* with the running jobs rj in hand: idle when there are none, else one
\* processJob per job in a Promise.all
EnterRound(w, rj) ==
    IF rj = {}
    THEN ToSleep(w)
    ELSE /\ wpc' = [wpc EXCEPT ![w] = "round"]
         /\ runningJobs' = [runningJobs EXCEPT ![w] = rj]
         /\ tasks' = [tasks EXCEPT ![w] = StartTasks(w, rj)]

WorkerReset(w) ==
    /\ wpc[w] = "reset"
    /\ jobs' = resetStaleJobs
    /\ ret' = RetCount(w, Cardinality({j \in JobIds : IsStale(j)}))
    /\ wpc' = [wpc EXCEPT ![w] = "getRunning"]
    /\ UNCHANGED cachedCalculator
    /\ wrote' = {}
    /\ UNCHANGED <<heatCells, now, schedVars, runningJobs, pendingJobs, tasks, apc,
                   progressAt>>

WorkerGetRunning(w) ==
    /\ wpc[w] = "getRunning"
    /\ LET rj == getAllRunningJobs
           availableSlots == getMaxConcurrentJobs - Cardinality(rj)
       IN  IF availableSlots > 0
           THEN /\ wpc' = [wpc EXCEPT ![w] = "getPending"]
                /\ runningJobs' = [runningJobs EXCEPT ![w] = rj]
                /\ UNCHANGED tasks
           ELSE EnterRound(w, rj)
    /\ ret' = NoRet
    /\ UNCHANGED cachedCalculator
    /\ wrote' = {}
    /\ UNCHANGED <<jobs, heatCells, now, schedVars, pendingJobs, apc, progressAt>>

WorkerGetPending(w) ==
    /\ wpc[w] = "getPending"
    /\ LET availableSlots == getMaxConcurrentJobs - Cardinality(runningJobs[w])
           pj == getNextPendingJobs(availableSlots)
       IN  IF pj # <<>>
           THEN /\ wpc' = [wpc EXCEPT ![w] = "mark"]
                /\ pendingJobs' = [pendingJobs EXCEPT ![w] = pj]
                /\ UNCHANGED <<runningJobs, tasks>>
           ELSE /\ EnterRound(w, runningJobs[w])
                /\ UNCHANGED pendingJobs
    /\ ret' = NoRet
    /\ UNCHANGED cachedCalculator
    /\ wrote' = {}
    /\ UNCHANGED <<jobs, heatCells, now, schedVars, apc, progressAt>>

WorkerMarkRunning(w) ==
    /\ wpc[w] = "mark"
    /\ jobs' = markJobRunning(Head(pendingJobs[w]))
    /\ pendingJobs' = [pendingJobs EXCEPT ![w] = Tail(pendingJobs[w])]
    /\ wpc' = [wpc EXCEPT ![w] =
                 IF Tail(pendingJobs[w]) = <<>> THEN "refetch" ELSE "mark"]
    /\ ret' = NoRet
    /\ UNCHANGED cachedCalculator
    /\ wrote' = {}
    /\ UNCHANGED <<heatCells, now, schedVars, runningJobs, tasks, apc, progressAt>>

WorkerRefetch(w) ==
    /\ wpc[w] = "refetch"
    /\ EnterRound(w, getAllRunningJobs)
    /\ ret' = NoRet
    /\ UNCHANGED cachedCalculator
    /\ wrote' = {}
    /\ UNCHANGED <<jobs, heatCells, now, schedVars, pendingJobs, apc, progressAt>>

\* the Promise.all settles when every processJob has returned: jobs that
\* reported hasMore stay in the list
EndTask(w, newTasks) ==
    IF \A k \in DOMAIN newTasks : newTasks[k].pc = "done"
    THEN LET remaining == {s \in runningJobs[w] : newTasks[s.id].more}
         IN  IF remaining = {}
             THEN ToSleep(w)
             ELSE /\ wpc' = [wpc EXCEPT ![w] = "roundFetch"]
                  /\ runningJobs' = [runningJobs EXCEPT ![w] = remaining]
                  /\ tasks' = [tasks EXCEPT ![w] = NoTasks]
    ELSE /\ tasks' = [tasks EXCEPT ![w] = newTasks]
         /\ UNCHANGED <<wpc, runningJobs>>

JobOf(w, j) == CHOOSE s \in runningJobs[w] : s.id = j

\* one batch of processHeatmapChunk: score the points, upsert the successes.
\* thrown are the points whose scoring throws; dbError is a failed insert.
\* With faults = FALSE no scoring and no insert fails.  The first batch of a
\* chunk that found no calculator in the cache follows the load: the POI
\* table is never written, so its query is not a step of its own.
\* the filter that drops the results carrying an error, kept from dropping any
successfulResultsAll(batch, thrown) == batch

\* results.filter: the results of a batch whose scoring did not throw
successfulResults(batch, thrown) == batch \ thrown

TaskBatch(w, j, faults) ==
    /\ wpc[w] = "round" /\ j \in DOMAIN tasks[w] /\ tasks[w][j].pc = "batch"
    /\ LET job == JobOf(w, j)
           t == tasks[w][j]
           batchCalculator == IF t.calculator # NoCalculator THEN t.calculator
                              ELSE loadBatchCalculator(job.metadata.bounds)
           batch == BatchIndexes(job.metadata, CHUNK_SIZE, t.i)
           seen == t.visited \cup batch
       IN  \E thrown \in (IF faults THEN SUBSET batch ELSE {{}}),
              dbError \in (IF faults THEN BOOLEAN ELSE {FALSE}) :
           LET ok == successfulResults(batch, thrown)
               failed == Cardinality(batch \ ok) + (IF dbError THEN Cardinality(ok) ELSE 0)
               stored == IF dbError THEN 0 ELSE Cardinality(ok)
               u == [t EXCEPT !.visited = seen, !.thrown = @ \cup thrown,
                              !.errors = @ + failed, !.processed = @ + stored,
                              !.calculator = batchCalculator]
           IN  /\ dbError => ok # {}
               /\ heatCells' = IF dbError THEN heatCells
                               ELSE Upsert(heatCells, CellRows(job, ok, batchCalculator.pois))
               /\ wrote' = IF dbError THEN {} ELSE {<<j, k>> : k \in ok}
               /\ cachedCalculator' = IF t.calculator = NoCalculator
                                      THEN [cachedCalculator EXCEPT ![w] = batchCalculator]
                                      ELSE cachedCalculator
               /\ EndTask(w, [tasks[w] EXCEPT ![j] =
                      IF t.i + BATCH_SIZE < SliceLen(job.metadata, CHUNK_SIZE)
                      THEN [u EXCEPT !.i = t.i + BATCH_SIZE]
                      ELSE [u EXCEPT !.pc = "progress"]])
    /\ ret' = NoRet
    /\ UNCHANGED <<jobs, now, schedVars, pendingJobs, apc, progressAt>>

\* what processHeatmapChunk passes to updateJobProgress
NewIndex(metadata) == EndIndex(metadata, CHUNK_SIZE)
\* variant: there is more until a chunk starts at the end of the grid
HasMoreUntilEmptySlice(metadata) ==
    StartIndex(metadata) < Len(generateGridPoints(metadata.bounds, metadata.gridStep))

HasMore(metadata) ==
    NewIndex(metadata) < Len(generateGridPoints(metadata.bounds, metadata.gridStep))
Progress(metadata) ==
    LET n == Len(generateGridPoints(metadata.bounds, metadata.gridStep))
    IN  IF n = 0 THEN 0 ELSE RoundDiv(NewIndex(metadata) * 100, n)

\* updateJobProgress: read the current metadata, merge
\* { ...metadata, lastProcessedIndex: newIndex } over it, write progress and
\* metadata.  The merge takes every key from the chunk's own copy, so the
\* value written does not depend on when the current metadata was read: the
\* read and the write are one step.  The chunk then returns hasMore, or goes
\* on to markJobCompleted.
TaskProgress(w, j) ==
    /\ wpc[w] = "round" /\ j \in DOMAIN tasks[w] /\ tasks[w][j].pc = "progress"
    /\ LET job == JobOf(w, j)
           t == tasks[w][j]
           metadata == [job.metadata EXCEPT !.lastProcessedIndex = NewIndex(job.metadata)]
           \* a chunk without a point to process comes here from the load
           u == [t EXCEPT !.calculator =
                    IF @ = NoCalculator THEN loadBatchCalculator(job.metadata.bounds)
                    ELSE @]
       IN  /\ jobs' = [jobs EXCEPT ![j].progress = Progress(job.metadata),
                                   ![j].metadata = MergeMetadata(jobs[j].metadata, metadata)]
           /\ progressAt' = [progressAt EXCEPT ![j] = now]
           /\ cachedCalculator' =
                  IF t.calculator = NoCalculator
                  THEN [cachedCalculator EXCEPT
                          ![w] = loadBatchCalculator(job.metadata.bounds)]
                  ELSE cachedCalculator
           /\ ret' = IF HasMore(job.metadata)
                     THEN RetChunk(w, j, t.processed, t.errors, TRUE, Progress(job.metadata))
                     ELSE NoRet
           /\ EndTask(w, [tasks[w] EXCEPT ![j] =
                  IF HasMore(job.metadata)
                  THEN [u EXCEPT !.pc = "done", !.more = TRUE]
                  ELSE [u EXCEPT !.pc = "complete"]])
    /\ wrote' = {}
    /\ UNCHANGED <<heatCells, now, schedVars, pendingJobs, apc>>

TaskComplete(w, j) ==
    /\ wpc[w] = "round" /\ j \in DOMAIN tasks[w] /\ tasks[w][j].pc = "complete"
    /\ jobs' = markJobCompleted(j)
    /\ cachedCalculator' = [cachedCalculator EXCEPT ![w] = NoCalculator]
    /\ ret' = RetChunk(w, j, tasks[w][j].processed, tasks[w][j].errors, FALSE,
                       Progress(JobOf(w, j).metadata))
    /\ EndTask(w, [tasks[w] EXCEPT ![j] = [@ EXCEPT !.pc = "done", !.more = FALSE]])
    /\ wrote' = {}
    /\ UNCHANGED <<heatCells, now, schedVars, pendingJobs, apc, progressAt>>

\* a job without bounds is failed at once.  Neither schedule function nor the
\* reset script inserts such a row: the step is taken under SpecMalformed.
TaskFail(w, j) ==
    /\ wpc[w] = "round" /\ j \in DOMAIN tasks[w] /\ tasks[w][j].pc = "fail"
    /\ jobs' = markJobFailed(j, "Job metadata missing bounds")
    /\ ret' = RetChunk(w, j, 0, 1, FALSE, 0)
    /\ EndTask(w, [tasks[w] EXCEPT ![j] =
           [@ EXCEPT !.pc = "done", !.more = FALSE, !.errors = 1]])
    /\ UNCHANGED cachedCalculator
    /\ wrote' = {}
    /\ UNCHANGED <<heatCells, now, schedVars, pendingJobs, apc, progressAt>>

\* processHeatmapChunk rejected: what processJob returns to the Promise.all
RetRejected(w, jobId) ==
    [kind |-> "rejected", client |-> w, fn |-> "processHeatmapChunk", slug |-> "",
     jobId |-> jobId, status |-> "", isNew |-> FALSE]

\* variant: the catch block marks the job failed
processJobCatchMarksFailed(jobId) == markJobFailed(jobId, "Error processing job")

\* the catch block of processJob(job).catch(...) in runWorker: it logs the
\* error and returns false; the jobs table is left as it is
processJobCatch(jobId) == jobs

\* the bulk POI load of a chunk fails: createBatchCalculator throws, so
\* getBatchCalculator throws before it assigns cachedCalculator and
\* processHeatmapChunk rejects at its first await; processJob rejects and the
\* catch block of the round turns that into false (the job leaves the list
\* of this round)
TaskLoadFail(w, j) ==
    /\ wpc[w] = "round" /\ j \in DOMAIN tasks[w]
    /\ tasks[w][j].pc \in {"batch", "progress"}
    /\ tasks[w][j].calculator = NoCalculator
    /\ jobs' = processJobCatch(j)
    /\ ret' = RetRejected(w, j)
    /\ EndTask(w, [tasks[w] EXCEPT ![j] = [@ EXCEPT !.pc = "done", !.more = FALSE]])
    /\ UNCHANGED cachedCalculator
    /\ wrote' = {}
    /\ UNCHANGED <<heatCells, now, schedVars, pendingJobs, apc, progressAt>>

\* after a round: re-fetch the running jobs; stop when there are none or when
\* the time budget of the poll cycle is used up (budgetLeft = FALSE)
WorkerRoundFetch(w, budgetLeft) ==
    /\ wpc[w] = "roundFetch"
    /\ IF budgetLeft THEN EnterRound(w, getAllRunningJobs) ELSE ToSleep(w)
    /\ ret' = NoRet
    /\ UNCHANGED cachedCalculator
    /\ wrote' = {}
    /\ UNCHANGED <<jobs, heatCells, now, schedVars, pendingJobs, apc, progressAt>>

\* the worker process ends and is started again: it is killed, or it receives
\* SIGTERM or SIGINT, whose handlers call process.exit(0) at once
WorkerCrash(w) ==
    /\ wpc[w] # "reset"
    /\ ToSleep(w)
    /\ pendingJobs' = [pendingJobs EXCEPT ![w] = <<>>]
    /\ cachedCalculator' = [cachedCalculator EXCEPT ![w] = NoCalculator]
    /\ ret' = NoRet
    /\ wrote' = {}
    /\ UNCHANGED <<jobs, heatCells, now, schedVars, apc, progressAt>>

\* ------------------------------------------- reset-and-schedule-cancun.ts
ScriptBounds == Bounds(2, 2, 0, 1)

\* 1. cancel all jobs
ScriptCancel ==
    /\ apc = "idle"
    /\ Len(jobs) < MaxJobs
    /\ jobs' = [j \in JobIds |->
                  [jobs[j] EXCEPT !.status = FAILED, !.error = "Canceled - reset"]]
    /\ apc' = "clear"
    /\ seq' = seq
    /\ ret' = NoRet
    /\ wrote' = {}
    /\ UNCHANGED <<heatCells, now, cpc, call, workerVars, progressAt>>

\* 2. clear all heatmap data
ScriptClear ==
    /\ apc = "clear"
    /\ heatCells' = {}
    /\ apc' = "insert"
    /\ seq' = seq
    /\ ret' = NoRet
    /\ wrote' = {}
    /\ UNCHANGED <<jobs, now, cpc, call, workerVars, progressAt>>

\* 3. schedule the new job (no cityId, no dedup query)
ScriptInsert ==
    /\ apc = "insert"
    /\ Len(jobs) < MaxJobs
    /\ jobs' = Append(jobs, NewJob(NoCity, ScriptBounds))
    /\ progressAt' = Append(progressAt, NULL)
    /\ apc' = "idle"
    /\ seq' = seq
    /\ ret' = NoRet
    /\ wrote' = {}
    /\ UNCHANGED <<heatCells, now, cpc, call, workerVars>>

\* ----------------------------------------------------------------- clock
Tick(d) ==
    /\ now + d <= MaxNow
    /\ now' = now + d
    /\ ret' = NoRet
    /\ wrote' = {}
    /\ UNCHANGED <<jobs, heatCells, schedVars, workerVars, apc, progressAt>>

\* ------------------------------------------------------- specifications
\* the scheduler calls of the clients in C
SchedulerStep(C) ==
    \/ \E c \in C, a \in ScheduleArgs : ScheduleBegin(c, a[1], a[2])
    \/ \E c \in C : ScheduleCheck(c)
    \/ \E c \in C : ScheduleInsert(c)
    \/ \E c \in C, p \in QueryPoints : RegionalBegin(c, p[1], p[2])
    \/ \E c \in C : RegionalCheck(c)
    \/ \E c \in C : RegionalInsert(c)

\* scheduleHeatmapJob alone
CityStep(C) ==
    \/ \E c \in C, a \in ScheduleArgs : ScheduleBegin(c, a[1], a[2])
    \/ \E c \in C : ScheduleCheck(c)
    \/ \E c \in C : ScheduleInsert(c)

\* one step of runWorker in process w
WorkerStep(w, faults) ==
    \/ WorkerReset(w)
    \/ WorkerGetRunning(w)
    \/ WorkerGetPending(w)
    \/ WorkerMarkRunning(w)
    \/ WorkerRefetch(w)
    \/ \E j \in 1..MaxJobs : TaskBatch(w, j, faults)
    \/ \E j \in 1..MaxJobs : TaskProgress(w, j)
    \/ \E j \in 1..MaxJobs : TaskComplete(w, j)
    \/ \E b \in BOOLEAN : WorkerRoundFetch(w, b)

ScriptStep == ScriptCancel \/ ScriptClear \/ ScriptInsert

\* the API routes and the reset script on an empty database, no worker
NextSchedule == SchedulerStep(Clients) \/ ScriptStep
SpecSchedule == Init /\ [][NextSchedule]_vars

\* one worker process that may be killed and restarted, one client, the clock
NextWorker ==
    \/ CityStep({"c1"})
    \/ WorkerStep("w1", TRUE)
    \/ WorkerCrash("w1")
    \/ \E d \in TickSteps : Tick(d)
SpecWorker == Init /\ [][NextWorker]_vars

\* two worker processes on one database
NextWorkers ==
    \/ CityStep({"c1"})
    \/ \E w \in Workers : WorkerStep(w, FALSE)
SpecWorkers == Init /\ [][NextWorkers]_vars

\* one worker process and the reset script
NextCancel ==
    \/ CityStep({"c1"})
    \/ WorkerStep("w1", FALSE)
    \/ ScriptStep
SpecCancel == Init /\ [][NextCancel]_vars

\* one worker process that may be killed and restarted and that, while it
\* runs, keeps taking steps.  The restarted process resumes every running job
\* it finds, so no job has to turn stale first: the clock stands still.
NextLive ==
    \/ CityStep({"c1"})
    \/ WorkerStep("w1", FALSE)
    \/ WorkerCrash("w1")
SpecLive == Init /\ [][NextLive]_vars /\ WF_vars(WorkerStep("w1", FALSE))

\* the upsert statement applied to arbitrary rows, as time passes
NextUpsert ==
    \/ \E rows \in RowInputs : InsertHeatCells(rows)
    \/ \E d \in TickSteps : Tick(d)
SpecUpsert == Init /\ [][NextUpsert]_vars

\* metadata is an untyped jsonb column: a row written by anything other than
\* the schedule functions may lack its bounds
MalformedJob == [NewJob(NoCity, NoBounds) EXCEPT !.totalItems = 0]
InitMalformed ==
    /\ jobs = <<MalformedJob>>
    /\ progressAt = <<NULL>>
    /\ heatCells = {}
    /\ now = 0
    /\ cpc = [c \in Clients |-> "idle"]
    /\ call = [c \in Clients |-> NoCall]
    /\ ret = NoRet
    /\ wpc = [w \in Workers |-> "reset"]
    /\ runningJobs = [w \in Workers |-> {}]
    /\ pendingJobs = [w \in Workers |-> <<>>]
    /\ tasks = [w \in Workers |-> NoTasks]
    /\ cachedCalculator = [w \in Workers |-> NoCalculator]
    /\ apc = "idle"
    /\ wrote = {}
    /\ seq = NoSeq
\* one worker and one client on a database that holds a job without bounds
NextMalformed ==
    \/ CityStep({"c1"})
    \/ WorkerStep("w1", FALSE)
    \/ \E j \in 1..MaxJobs : TaskFail("w1", j)
SpecMalformed == InitMalformed /\ [][NextMalformed]_vars

\* the score route with its auto-trigger and the schedule route, called by
\* two clients, and a worker
NextCoverage ==
    \/ EnsureStep(Clients, {{}})
    \/ CityStep({"c1"})
    \/ WorkerStep("w1", FALSE)
SpecCoverage == Init /\ [][NextCoverage]_vars

\* the sets of category queries that fail in one score request: none, one,
\* several
QueryFailures == {{}, {"transit"}, {"groceries", "restaurants"}}
\* the score route called by two clients while POI queries can fail
NextScore == EnsureStep(Clients, QueryFailures)
SpecScore == Init /\ [][NextScore]_vars

\* the rounded weighted averages calculateScore hands to compressScore
MaxRawScore == 100
RetCompress(kind, rawScore, score) ==
    [kind |-> kind, client |-> "", fn |-> "compressScore", slug |-> "",
     jobId |-> NULL, status |-> "", isNew |-> FALSE,
     rawScore |-> rawScore, score |-> score]
InitCompress ==
    /\ \E rawScore \in 0..MaxRawScore : ret = RetCompress("raw", rawScore, rawScore)
    /\ jobs = <<>>
    /\ progressAt = <<>>
    /\ heatCells = {}
    /\ now = 0
    /\ cpc = [c \in Clients |-> "idle"]
    /\ call = [c \in Clients |-> NoCall]
    /\ wpc = [w \in Workers |-> "reset"]
    /\ runningJobs = [w \in Workers |-> {}]
    /\ pendingJobs = [w \in Workers |-> <<>>]
    /\ tasks = [w \in Workers |-> NoTasks]
    /\ cachedCalculator = [w \in Workers |-> NoCalculator]
    /\ apc = "idle"
    /\ wrote = {}
    /\ seq = NoSeq
\* the last statement of the calculator's calculateScore
Compress ==
    /\ ret.kind = "raw"
    /\ ret' = RetCompress("compressed", ret.rawScore, compressScore(ret.rawScore))
    /\ UNCHANGED <<jobs, heatCells, now, cpc, call, workerVars, apc, progressAt,
                   wrote, seq>>
NextCompress == Compress
SpecCompress == InitCompress /\ [][NextCompress]_vars

\* the bounds callers pass as the bounds argument of scheduleHeatmapJob:
\* the configured city, parts of it, and areas off the grid lines
GridInputs ==
    {Bounds(0, 8, 0, 1), Bounds(0, 4, 0, 1), Bounds(4, 8, 0, 1),
     Bounds(2, 6, 0, 2), Bounds(1, 5, 0, 1), Bounds(3, 4, 1, 3)}
\* the database holds two pending jobs scheduled for bounds A and B
InitGrid ==
    /\ \E A \in GridInputs, B \in GridInputs :
          jobs = <<NewJob(NoCity, A), NewJob(NoCity, B)>>
    /\ progressAt = <<NULL, NULL>>
    /\ heatCells = {}
    /\ now = 0
    /\ cpc = [c \in Clients |-> "idle"]
    /\ call = [c \in Clients |-> NoCall]
    /\ ret = NoRet
    /\ wpc = [w \in Workers |-> "reset"]
    /\ runningJobs = [w \in Workers |-> {}]
    /\ pendingJobs = [w \in Workers |-> <<>>]
    /\ tasks = [w \in Workers |-> NoTasks]
    /\ cachedCalculator = [w \in Workers |-> NoCalculator]
    /\ apc = "idle"
    /\ wrote = {}
    /\ seq = NoSeq
\* one worker generates and processes the grids of the two jobs
NextGrid == WorkerStep("w1", FALSE)
SpecGrid == InitGrid /\ [][NextGrid]_vars

\* one worker process that may be killed and restarted, one client and the
\* clock, while no scoring and no insert fails
NextResume ==
    \/ CityStep({"c1"})
    \/ WorkerStep("w1", FALSE)
    \/ WorkerCrash("w1")
    \/ \E d \in TickSteps : Tick(d)
SpecResume == Init /\ [][NextResume]_vars

\* one worker process and one client while the bulk POI load can fail
NextLoad ==
    \/ CityStep({"c1"})
    \/ WorkerStep("w1", FALSE)
    \/ \E j \in 1..MaxJobs : TaskLoadFail("w1", j)
SpecLoad == Init /\ [][NextLoad]_vars

\* the points whose POI counts are computed: every point of the area
MaxCoord == 8
CountPoints == {<<lat, lng>> : lat \in 0..MaxCoord, lng \in 0..MaxCoord}
\* counted: per category, the POIs that make up its count
RetCounted(kind, fn, lat, lng, counted) ==
    [kind |-> kind, client |-> "", fn |-> fn, slug |-> "", jobId |-> NULL,
     status |-> "", isNew |-> FALSE, lat |-> lat, lng |-> lng, counted |-> counted]
InitCount ==
    /\ \E p \in CountPoints :
          ret = RetCounted("point", "", p[1], p[2], [id \in {} |-> {}])
    /\ jobs = <<>>
    /\ progressAt = <<>>
    /\ heatCells = {}
    /\ now = 0
    /\ cpc = [c \in Clients |-> "idle"]
    /\ call = [c \in Clients |-> NoCall]
    /\ wpc = [w \in Workers |-> "reset"]
    /\ runningJobs = [w \in Workers |-> {}]
    /\ pendingJobs = [w \in Workers |-> <<>>]
    /\ tasks = [w \in Workers |-> NoTasks]
    /\ cachedCalculator = [w \in Workers |-> NoCalculator]
    /\ apc = "idle"
    /\ wrote = {}
    /\ seq = NoSeq
\* the point engine counts the POIs of every category at the point: count is
\* pois.length of what queryPOIs returned
EngineCount ==
    /\ ret.kind = "point"
    /\ ret' = RetCounted("counted", "calculateScore", ret.lat, ret.lng,
                         [id \in categories |-> queryPOIs(ret.lat, ret.lng, id)])
    /\ UNCHANGED <<jobs, heatCells, now, cpc, call, workerVars, apc, progressAt,
                   wrote, seq>>
\* the batch calculator of the regional job around the point counts the POIs
\* of its categories at the point
CalculatorCount ==
    /\ ret.kind = "point"
    /\ LET pois == createBatchCalculator(RegionBounds(ret.lat, ret.lng))
       IN  ret' = RetCounted("counted", "calculateCategoryScore", ret.lat, ret.lng,
                             [id \in DEFAULT_HEATMAP_CATEGORIES |->
                                 withinRadius(pois, ret.lat, ret.lng, id)])
    /\ UNCHANGED <<jobs, heatCells, now, cpc, call, workerVars, apc, progressAt,
                   wrote, seq>>
NextCount == EngineCount \/ CalculatorCount
SpecCount == InitCount /\ [][NextCount]_vars

\* the database holds two pending jobs: the job scheduleHeatmapJob inserted
\* for cancun and the job scheduleRegionalHeatmapJob inserted after it for
\* the point (6, 6) outside the city
InitReclaim ==
    /\ jobs = <<NewJob(cities.cancun, getCityBounds("cancun")),
                NewJob(NoCity, RegionBounds(6, 6))>>
    /\ progressAt = <<NULL, NULL>>
    /\ heatCells = {}
    /\ now = 0
    /\ cpc = [c \in Clients |-> "idle"]
    /\ call = [c \in Clients |-> NoCall]
    /\ ret = NoRet
    /\ wpc = [w \in Workers |-> "reset"]
    /\ runningJobs = [w \in Workers |-> {}]
    /\ pendingJobs = [w \in Workers |-> <<>>]
    /\ tasks = [w \in Workers |-> NoTasks]
    /\ cachedCalculator = [w \in Workers |-> NoCalculator]
    /\ apc = "idle"
    /\ wrote = {}
    /\ seq = NoSeq
\* two worker processes on one database; time passes the stale threshold
NextReclaim ==
    \/ \E w \in Workers : WorkerStep(w, FALSE)
    \/ Tick(STALE_JOB_MINUTES + 1)
SpecReclaim == InitReclaim /\ [][NextReclaim]_vars

\* --------------------------------------------------------------- claims
\* the scheduleHeatmapJob call of client c executes its dedup query
ChecksNow(c) == cpc[c] = "check" /\ cpc'[c] # "check"

\* the active jobs of the city and grid step client c asks for
OwnActiveJobs(c) ==
    {j \in JobIds : /\ IsActive(j)
                    /\ jobs[j].cityId = call[c].cityId
                    /\ jobs[j].metadata.gridStep = HEATMAP_GRID_STEP}

\* C1: at any time, for each city id and grid step, at most one job of that
\* city and grid step is pending or running.
OneActiveJobPerCity ==
    \A j, k \in JobIds :
        (/\ j # k /\ IsActive(j) /\ IsActive(k)
         /\ jobs[j].cityId # NoCity
         /\ jobs[j].cityId = jobs[k].cityId
         /\ jobs[j].metadata.gridStep = jobs[k].metadata.gridStep) => FALSE

\* C2: when a client calls scheduleHeatmapJob twice in a row for the same city
\* and the first call inserted a job that is still pending or running when
\* the second call runs its query, the second call returns that job with
\* isNew = false and leaves the jobs table as it is.
SecondCallReturnsSameJob ==
    [][\A c \in Clients :
          (/\ ChecksNow(c)
           /\ seq.client = c /\ seq.stage = "second"
           /\ IsActive(seq.jobId))
          => (/\ ret'.kind = "job" /\ ret'.jobId = seq.jobId /\ ~ret'.isNew
              /\ jobs' = jobs)]_vars

\* C3: scheduleHeatmapJob returns an existing job only when that job is
\* active, has the city id of the requested city and the requested grid
\* step; when no such job exists it goes on to insert a new one.
ReturnsOnlyOwnActiveJob ==
    [][\A c \in Clients :
          ChecksNow(c) =>
              IF cpc'[c] = "insert"
              THEN OwnActiveJobs(c) = {}
              ELSE /\ ret'.kind = "job" /\ ~ret'.isNew
                   /\ ret'.jobId \in OwnActiveJobs(c)]_vars

RunningJobs == {j \in JobIds : jobs[j].status = RUNNING}

\* C4: with one worker loop, the number of running jobs never exceeds
\* MAX_CONCURRENT_JOBS.
RunningWithinLimit == Cardinality(RunningJobs) <= MAX_CONCURRENT_JOBS

\* C4 witness: the worker processes with every slot taken while a pending
\* job waits.
RunningAtLimitWitness ==
    /\ Cardinality(RunningJobs) = MAX_CONCURRENT_JOBS
    /\ \E j \in JobIds : jobs[j].status = PENDING
    /\ wpc["w1"] = "round"

\* C5: with several worker loops on one database, no set of more than
\* MAX_CONCURRENT_JOBS jobs is running at the same time.
RunningWithinLimitAcrossWorkers ==
    \A S \in SUBSET JobIds :
        (\A j \in S : jobs[j].status = RUNNING) => Cardinality(S) <= MAX_CONCURRENT_JOBS

\* C6: a failed job stays failed, whatever step is taken.
FailedIsTerminal ==
    [][\A j \in JobIds : jobs[j].status = FAILED => jobs'[j].status = FAILED]_vars

\* worker w executes resetStaleJobs
ResetsNow(w) == wpc[w] = "reset" /\ wpc'[w] = "getRunning"

\* the running jobs started more than STALE_JOB_MINUTES ago
StartedLongAgo ==
    {j \in JobIds : /\ jobs[j].status = RUNNING
                    /\ jobs[j].startedAt # NULL
                    /\ now - jobs[j].startedAt > STALE_JOB_MINUTES}

\* C7: resetStaleJobs sets exactly the running jobs started more than
\* STALE_JOB_MINUTES ago to pending with startedAt cleared, returns their
\* number, and leaves every other job as it is.
ResetsExactlyStaleJobs ==
    [][\A w \in Workers :
          ResetsNow(w) =>
              /\ Len(jobs') = Len(jobs)
              /\ \A j \in JobIds :
                     jobs'[j] = IF j \in StartedLongAgo
                                THEN [jobs[j] EXCEPT !.status = PENDING, !.startedAt = NULL]
                                ELSE jobs[j]
              /\ ret'.kind = "count" /\ ret'.jobId = Cardinality(StartedLongAgo)]_vars

\* C7 witness: resetStaleJobs has just reset a job.
ResetWitness ==
    /\ ret.kind = "count" /\ ret.jobId > 0
    /\ \E j \in JobIds : jobs[j].status = PENDING /\ jobs[j].startedAt = NULL
                          /\ jobs[j].metadata.lastProcessedIndex = 0

\* C8 as stated: a running job whose progress was written less than
\* STALE_JOB_MINUTES ago is not set back to pending.
NoResetAfterRecentProgress ==
    [][\A j \in JobIds :
          (/\ jobs[j].status = RUNNING
           /\ progressAt[j] # NULL
           /\ now - progressAt[j] < STALE_JOB_MINUTES)
          => jobs'[j].status # PENDING]_vars

\* C8 amended: a running job is set back to pending only when it was started
\* more than STALE_JOB_MINUTES ago, however recently its progress was written.
ResetOnlyWhenStartedLongAgo ==
    [][\A j \in JobIds :
          (jobs[j].status = RUNNING /\ jobs'[j].status = PENDING)
          => j \in StartedLongAgo]_vars

\* C8 witness: a job has just been reset although its progress was written
\* less than STALE_JOB_MINUTES ago.
ResetDespiteProgressWitness ==
    /\ ret.kind = "count" /\ ret.jobId > 0
    /\ \E j \in JobIds : /\ jobs[j].status = PENDING
                          /\ progressAt[j] # NULL
                          /\ now - progressAt[j] < STALE_JOB_MINUTES

\* the chunk of job j in worker w executes a batch
BatchNow(w, j) ==
    /\ wpc[w] = "round" /\ j \in DOMAIN tasks[w] /\ tasks[w][j].pc = "batch"
    /\ wpc'[w] = "round" /\ tasks'[w][j] # tasks[w][j]

\* C9: resetStaleJobs leaves progress and metadata of every job as they are,
\* and the first batch of a chunk starts at the persisted lastProcessedIndex.
ReclaimKeepsProgress ==
    [][/\ \A w \in Workers :
             ResetsNow(w) =>
                 \A j \in JobIds : /\ jobs'[j].progress = jobs[j].progress
                                    /\ jobs'[j].metadata = jobs[j].metadata
       /\ \A w \in Workers, j \in JobIds :
             (BatchNow(w, j) /\ tasks[w][j].visited = {})
             => /\ jobs[j].metadata.lastProcessedIndex \in tasks'[w][j].visited
                /\ \A k \in tasks'[w][j].visited :
                       k >= jobs[j].metadata.lastProcessedIndex]_vars

\* C9 witness: a job that was reset after its progress was written and then
\* claimed again has had its first batch, which did not touch index 0.
ResumedAfterReclaimWitness ==
    \E j \in JobIds :
        /\ jobs[j].status = RUNNING
        /\ progressAt[j] # NULL /\ jobs[j].startedAt > progressAt[j]
        /\ j \in DOMAIN tasks["w1"]
        /\ tasks["w1"][j].visited # {} /\ 0 \notin tasks["w1"][j].visited

\* the slice [i, min(i + chunkSize, gridLength)) of job j, i its persisted
\* lastProcessedIndex
Slice(j) ==
    LET i == jobs[j].metadata.lastProcessedIndex
        gridLength == Len(generateGridPoints(jobs[j].metadata.bounds,
                                             jobs[j].metadata.gridStep))
    IN  {k \in 0..(gridLength - 1) : k >= i /\ k < i + CHUNK_SIZE}

\* the heat_cells key of grid index k of job j
CellOf(j, k) ==
    generateGridPoints(jobs[j].metadata.bounds, jobs[j].metadata.gridStep)[k + 1]

\* C10: every batch of a chunk scores and writes only grid indexes of the
\* slice, inserts or changes only cells of the slice, and when the batch loop
\* is over every index of the slice has been scored.
ChunkProcessesItsSlice ==
    [][\A w \in Workers, j \in JobIds :
          BatchNow(w, j) =>
              /\ wrote' \subseteq {<<j, k>> : k \in Slice(j)}
              /\ \A r \in heatCells' \ heatCells :
                     \E k \in Slice(j) : r.lat = CellOf(j, k).lat /\ r.lng = CellOf(j, k).lng
              /\ tasks'[w][j].visited \subseteq Slice(j)
              /\ tasks'[w][j].pc # "batch" => tasks'[w][j].visited = Slice(j)]_vars

\* C10 witness: a chunk that started above index 0 has finished its batch
\* loop after writing a cell.
ChunkResumedWitness ==
    \E j \in JobIds :
        /\ j \in DOMAIN tasks["w1"]
        /\ tasks["w1"][j].pc = "progress"
        /\ tasks["w1"][j].visited # {} /\ 0 \notin tasks["w1"][j].visited
        /\ wrote # {}

\* C11: the persisted lastProcessedIndex of a job never decreases.
LastProcessedIndexNeverDecreases ==
    [][\A j \in JobIds :
          jobs'[j].metadata.lastProcessedIndex >= jobs[j].metadata.lastProcessedIndex]_vars

\* row j exists and has status st
HasStatus(j, st) == j \in JobIds /\ jobs[j].status = st

\* C12: if the worker is killed only finitely often, every pending job is
\* eventually completed.
PendingJobsComplete ==
    (<>[][~WorkerCrash("w1")]_vars)
    => \A j \in 1..MaxJobs :
          [](HasStatus(j, PENDING) => <>HasStatus(j, COMPLETED))

\* C12 witness: the worker was killed between the upsert of a batch and the
\* progress write: the only job is running, its cell at the persisted
\* lastProcessedIndex is stored, and the restarted worker has not fetched it.
KilledInsideChunkWitness ==
    /\ Len(jobs) = 1 /\ jobs[1].status = RUNNING
    /\ wpc["w1"] = "reset"
    /\ jobs[1].metadata.lastProcessedIndex \in Slice(1)
    /\ \E r \in heatCells :
          /\ r.lat = CellOf(1, jobs[1].metadata.lastProcessedIndex).lat
          /\ r.lng = CellOf(1, jobs[1].metadata.lastProcessedIndex).lng

\* C13: the heat cell upsert is idempotent: the table never holds two rows
\* with the same (lat, lng, gridStep), and after a statement writes a row the
\* one stored row of its key carries the score and the computedAt just written.
RowsOfKey(cells, r) == {c \in cells : SameKey(c, r)}
OneRowPerKey == \A c \in heatCells : RowsOfKey(heatCells, c) = {c}
UpsertKeepsOneLatestRow ==
    /\ []OneRowPerKey
    /\ [][\A rows \in RowInputs : InsertHeatCells(rows) =>
             \A r \in rows :
                 /\ Cardinality(RowsOfKey(heatCells', r)) = 1
                 /\ \A c \in RowsOfKey(heatCells', r) :
                        c.score = r.score /\ c.computedAt = now]_vars
\* a key stored with one score at one time is rewritten later with another
RewrittenWithOtherScoreWitness ==
    \E c \in heatCells, o \in wrote :
        /\ o[1] = NULL /\ SameKey(o[2], c)
        /\ o[2].score # c.score /\ o[2].computedAt < c.computedAt

\* C14: when two workers compute the same cell (one job claimed twice, or two
\* overlapping jobs of the same grid step), the score stored does not depend on
\* which write lands last: every stored score is the score of its point over
\* the whole POI table, whichever job's calculator produced it.
ScoreOf(lat, lng) == calculateScore(overturePois, lat, lng)
ChunkSteps(w, j) ==
    /\ wpc[w] = "round" /\ j \in DOMAIN tasks[w] /\ tasks[w][j].pc # "done"
    /\ IF j \in DOMAIN tasks'[w]
       THEN tasks'[w][j] # tasks[w][j]
       ELSE ret'.kind = "chunk" /\ ret'.client = w /\ ret'.jobId = j
JobWithoutBoundsFailsCleanly ==
    [][\A w \in Workers, j \in JobIds :
          (ChunkSteps(w, j) /\ JobOf(w, j).metadata.bounds = NoBounds) =>
             /\ jobs'[j].status = FAILED /\ jobs'[j].error # ""
             /\ ret' = RetChunk(w, j, 0, 1, FALSE, 0)
             /\ heatCells' = heatCells
             /\ cachedCalculator' = cachedCalculator
             /\ jobs'[j].progress = jobs[j].progress
             /\ jobs'[j].metadata = jobs[j].metadata]_vars
\* the chunk on the job without bounds has returned, while another job runs
JobWithoutBoundsFailedWitness ==
    /\ ret.kind = "chunk" /\ ret.processed = 0 /\ ret.errors = 1
    /\ jobs[ret.jobId].metadata.bounds = NoBounds
    /\ jobs[ret.jobId].status = FAILED

\* C16: a scoring error at one point does not abort the chunk: the point is
\* counted in errors and left out of the upsert, the other points of the
\* batch are persisted when the insert itself succeeds, the chunk goes on,
\* the job is not failed, and lastProcessedIndex advances past the whole slice.
ScoringErrorDoesNotAbortChunk ==
    [][\A w \in Workers, j \in JobIds :
          /\ (ChunkSteps(w, j) /\ tasks[w][j].pc = "batch") =>
                LET t == tasks[w][j]
                    u == tasks'[w][j]
                    thrown == u.thrown \ t.thrown
                    scored == u.visited \ t.visited
                    written == {k \in scored : <<j, k>> \in wrote'}
                IN  /\ written \cap thrown = {}
                    /\ u.errors - t.errors >= Cardinality(thrown)
                    /\ u.errors - t.errors = Cardinality(thrown)
                          => /\ written = scored \ thrown
                             /\ \A k \in written : \E r \in heatCells' :
                                    /\ r.lat = CellOf(j, k).lat
                                    /\ r.lng = CellOf(j, k).lng
                                    /\ r.score = ScoreOf(r.lat, r.lng)
                    /\ u.processed - t.processed = Cardinality(written)
                    /\ u.pc \in {"batch", "progress"}
                    /\ jobs' = jobs
          /\ (ChunkSteps(w, j) /\ tasks[w][j].pc = "progress") =>
                /\ jobs'[j].metadata.lastProcessedIndex
                      = Min(JobOf(w, j).metadata.lastProcessedIndex + CHUNK_SIZE,
                            Len(generateGridPoints(jobs[j].metadata.bounds,
                                                   jobs[j].metadata.gridStep)))
                /\ jobs'[j].status = jobs[j].status]_vars
\* a chunk with a scoring error has returned: other points were persisted,
\* progress was written and the job is not failed
ScoringErrorSurvivedWitness ==
    /\ ret.kind = "chunk" /\ ret.errors = 1 /\ ret.processed = CHUNK_SIZE - 1
    /\ jobs[ret.jobId].status # FAILED
    /\ jobs[ret.jobId].metadata.lastProcessedIndex = CHUNK_SIZE
    /\ Cardinality(heatCells) = CHUNK_SIZE - 1

\* C17: ensureHeatmapCoverage never rejects: whichever of the coverage query,
\* the overlap query, the POI query or the insert throws, its promise
\* resolves; the score response was returned when the call was made and no
\* step of the call returns anything else to the route.
EnsureNow(c) == call[c].kind = "ensure"
EnsureHeatmapCoverageNeverRejects ==
    /\ [](ret.kind = "settled" => ret.status = "resolved")
    /\ [][\A c \in Clients :
             /\ (cpc[c] = "idle" /\ EnsureNow(c)') =>
                   ret' = RetScore(c, engineCalculateScore(call'[c].lat,
                                                           call'[c].lng, {}), {})
             /\ (EnsureNow(c) /\ (cpc'[c] # cpc[c] \/ call'[c] # call[c])) =>
                   /\ ret'.kind \in {"none", "settled"}
                   /\ ret'.kind = "settled" <=> ~EnsureNow(c)']_vars
\* the insert of the regional job threw and the call has resolved: no job
\* was stored
InsertFailedResolvedWitness ==
    /\ ret.kind = "settled" /\ ret.status = "resolved"
    /\ ret.logged /\ ret.at = "ensureInsert"
    /\ jobs = <<>>

\* C18: the auto-trigger inserts a regional job for a point only if, at the
\* time of the call, no heat cell lies within one grid step of the point, no
\* pending or running job has bounds that contain it and a POI exists in its
\* region; a call that ends at one of its checks leaves the jobs table as it is.
AutoTriggerInserts(c) ==
    cpc[c] = "ensureInsert" /\ cpc'[c] = "idle" /\ Len(jobs') = Len(jobs) + 1
AutoTriggerOnlyIfConditionsHeldAtCall ==
    [][\A c \in Clients :
          /\ AutoTriggerInserts(c) =>
                /\ call[c].atCall.noCoverage
                /\ call[c].atCall.noOverlap
                /\ call[c].atCall.hasPois
          /\ (EnsureNow(c) /\ cpc[c] # "ensureInsert" /\ cpc'[c] # cpc[c]) =>
                jobs' = jobs]_vars

\* C19: graceful shutdown: a worker that receives SIGTERM or SIGINT while a
\* chunk is in flight finishes the chunk (cell upserts, progress write)
\* before the process exits, so the process never exits inside a chunk.
ChunkInFlight(w) ==
    wpc[w] = "round" /\ \E j \in DOMAIN tasks[w] : tasks[w][j].pc # "done"
ShutdownFinishesChunkInFlight ==
    [][\A w \in Workers : WorkerCrash(w) => ~ChunkInFlight(w)]_vars

\* C20: a failed job does not block rescheduling or other jobs: when a job
\* of the requested city, bounds and grid step is failed and none is active,
\* scheduleHeatmapJob goes on to insert; its insert returns a new pending job
\* with isNew = true and leaves failed jobs failed; and a worker with a free
\* slot picks a pending job whatever failed jobs there are.
OwnFailedJobs(c) ==
    {j \in JobIds : /\ jobs[j].status = FAILED
                    /\ jobs[j].cityId = call[c].cityId
                    /\ jobs[j].metadata.bounds = call[c].bounds
                    /\ jobs[j].metadata.gridStep = HEATMAP_GRID_STEP}
FailedJobDoesNotBlock ==
    [][/\ \A c \in Clients :
             /\ (ChecksNow(c) /\ OwnFailedJobs(c) # {} /\ OwnActiveJobs(c) = {})
                   => cpc'[c] = "insert"
             /\ (cpc[c] = "insert" /\ cpc'[c] = "idle") =>
                   /\ ret'.kind = "job" /\ ret'.isNew
                   /\ jobs'[ret'.jobId].status = PENDING
                   /\ \A j \in JobIds :
                          jobs[j].status = FAILED => jobs'[j].status = FAILED
       /\ \A w \in Workers :
             (/\ wpc[w] = "getPending" /\ wpc'[w] # "getPending"
              /\ runningJobs[w] = {}
              /\ \E j \in JobIds : jobs[j].status = PENDING)
             => /\ pendingJobs'[w] # <<>>
                /\ jobs[pendingJobs'[w][1]].status = PENDING]_vars

\* C21: the grid is global: for two bounds A and B at the same grid step,
\* every grid point generated for A that lies inside B is generated for B
\* too, with the same coordinates.
InsideBounds(p, bounds) ==
    /\ bounds.minLat <= p.lat /\ p.lat <= bounds.maxLat
    /\ bounds.minLng <= p.lng /\ p.lng <= bounds.maxLng
GridOf(j) ==
    LET points == generateGridPoints(jobs[j].metadata.bounds,
                                     jobs[j].metadata.gridStep)
    IN  {points[k] : k \in DOMAIN points}
GridsAgreeOnSharedArea ==
    \A a \in JobIds, b \in JobIds :
        \A p \in GridOf(a) :
            InsideBounds(p, jobs[b].metadata.bounds) => p \in GridOf(b)

\* C22: the totalItems recorded when a job is created equals the number of
\* grid points generateGridPoints produces for the job's bounds and grid step.
TotalItemsIsGridLength ==
    \A j \in JobIds :
        jobs[j].totalItems = Len(generateGridPoints(jobs[j].metadata.bounds,
                                                    jobs[j].metadata.gridStep))

\* C23: calculateScore of the engine runs one POI query per category and
\* waits for all of them: when the query of any category fails the call
\* fails, no ScoreResult with a part of the categories is returned, and
\* GET /api/score answers with status 500; a ScoreResult that is returned
\* holds every category.
ScoreFailsAsAWhole ==
    ret.fn = "GET /api/score" =>
        /\ ret.failed # {} => ret.kind = "error" /\ ret.status = "500"
        /\ ret.failed = {} => ret.kind = "score" /\ ret.status = "200"
        /\ ret.kind = "score" => DOMAIN ret.score.categories = categories
\* the query of one category alone failed and the request was answered
\* with the error
OneCategoryFailedWitness ==
    /\ ret.fn = "GET /api/score"
    /\ Cardinality(ret.failed) = 1
    /\ ret.kind = "error"

\* C24: after every processHeatmapChunk call the persisted progress of the
\* job is the number of grid cells done so far, its lastProcessedIndex, on
\* the scale of totalItems.
ProgressIsCellsDone ==
    [][\A w \in Workers, j \in JobIds :
          (ChunkSteps(w, j) /\ ret'.kind = "chunk") =>
              jobs'[j].progress = jobs'[j].metadata.lastProcessedIndex]_vars

\* C25: no POI is a score of zero and not an error: a category with count 0
\* scores 0 in the point engine and in the batch calculator, and a grid point
\* with no POI in range whose scoring did not throw is, unless the insert of
\* its batch fails, upserted as a heat cell with score 0 and counted in
\* processed, not in errors.
NoPoiInRange(lat, lng) ==
    \A id \in categories : withinRadius(overturePois, lat, lng, id) = {}
ZeroCountScoresZero ==
    /\ engineCategoryScore(0) = 0
    /\ \A p \in QueryPoints, id \in categories :
           /\ queryPOIs(p[1], p[2], id) = {} =>
                  ScoreResult(p[1], p[2], categories).categories[id].score = 0
           /\ (id \in DEFAULT_HEATMAP_CATEGORIES
               /\ withinRadius(overturePois, p[1], p[2], id) = {}) =>
                  calculateCategoryScore(overturePois, p[1], p[2], id) = 0
ZeroPoisIsZeroScore ==
    /\ []ZeroCountScoresZero
    /\ [][\A w \in Workers, j \in JobIds :
             (ChunkSteps(w, j) /\ tasks[w][j].pc = "batch") =>
                LET t == tasks[w][j]
                    u == tasks'[w][j]
                    thrown == u.thrown \ t.thrown
                    scored == u.visited \ t.visited
                    zero == {k \in scored \ thrown :
                                NoPoiInRange(CellOf(j, k).lat, CellOf(j, k).lng)}
                IN  u.errors - t.errors = Cardinality(thrown) =>
                       /\ \A k \in zero :
                              /\ <<j, k>> \in wrote'
                              /\ \E r \in heatCells' :
                                     /\ r.lat = CellOf(j, k).lat
                                     /\ r.lng = CellOf(j, k).lng
                                     /\ r.score = 0
                       /\ zero = scored =>
                              /\ u.errors = t.errors
                              /\ u.processed - t.processed = Cardinality(zero)]_vars
\* a batch whose only point has no POI in range was written with score 0,
\* and the chunk has counted no error
ZeroScoreCellPersistedWitness ==
    \E w \in Workers : \E j \in DOMAIN tasks[w] :
        /\ tasks[w][j].errors = 0 /\ tasks[w][j].processed > 0
        /\ wrote # {}
        /\ \A jk \in wrote :
               /\ jk[1] = j
               /\ NoPoiInRange(CellOf(j, jk[2]).lat, CellOf(j, jk[2]).lng)
               /\ \E r \in heatCells :
                      /\ r.lat = CellOf(j, jk[2]).lat
                      /\ r.lng = CellOf(j, jk[2]).lng
                      /\ r.score = 0

\* C26: score compression is idempotent on its boundary: compress(x) = x
\* for every integer x in 0..60, and the result of compressing 100 is a fixed
\* point of compressScore: compress(compress(100)) = compress(100).
CompressIdempotentOnBoundary ==
    ret.kind = "compressed" =>
        /\ ret.rawScore <= 60 => ret.score = ret.rawScore
        /\ ret.rawScore = 100 => compressScore(ret.score) = ret.score

\* C27: with one worker loop and no other writer of the jobs table, every
\* change of a job's status is pending to running (the claim of the job),
\* running to completed (the grid is exhausted), running to pending (the
\* reset of a stale job) or a change to failed; completed is never left and
\* no job goes from pending to completed.
StatusChangesFollowLifecycle ==
    [][\A j \in JobIds :
          LET from == jobs[j].status
              to == jobs'[j].status
          IN  from # to =>
                 /\ from # COMPLETED
                 /\ \/ from = PENDING /\ to = RUNNING
                    \/ /\ from = RUNNING /\ to = COMPLETED
                       /\ jobs'[j].metadata.lastProcessedIndex =
                              Len(generateGridPoints(jobs[j].metadata.bounds,
                                                     jobs[j].metadata.gridStep))
                    \/ from = RUNNING /\ to = PENDING /\ IsStale(j)
                    \/ to = FAILED]_vars
\* one job has been completed and another, claimed and partly processed,
\* has been reset to pending
CompletedAndReclaimedWitness ==
    \E j \in JobIds, k \in JobIds :
        /\ jobs[j].status = COMPLETED
        /\ jobs[k].status = PENDING
        /\ jobs[k].metadata.lastProcessedIndex > 0

\* C28: a processHeatmapChunk call on a job with bounds persists
\* lastProcessedIndex = min(i + chunkSize, gridLength), i being the index
\* before the call; it returns hasMore = false and marks the job completed
\* exactly when the new index is gridLength, and else returns hasMore = true
\* and leaves the status of the job as it was.
GridLength(j) ==
    Len(generateGridPoints(jobs[j].metadata.bounds, jobs[j].metadata.gridStep))
ChunkAdvancesAndCompletesAtEnd ==
    [][\A w \in Workers, j \in JobIds :
          /\ (ChunkSteps(w, j) /\ tasks[w][j].pc = "progress") =>
                /\ JobOf(w, j).metadata.lastProcessedIndex
                      = jobs[j].metadata.lastProcessedIndex
                /\ jobs'[j].metadata.lastProcessedIndex
                      = Min(jobs[j].metadata.lastProcessedIndex + CHUNK_SIZE,
                            GridLength(j))
                /\ jobs'[j].status = jobs[j].status
          /\ (/\ ChunkSteps(w, j) /\ ret'.kind = "chunk"
              /\ jobs[j].metadata.bounds # NoBounds) =>
                LET atEnd == jobs'[j].metadata.lastProcessedIndex = GridLength(j)
                IN  /\ ret'.hasMore = ~atEnd
                    /\ atEnd => jobs'[j].status = COMPLETED
                    /\ ~atEnd => jobs'[j].status = jobs[j].status]_vars
\* the second chunk of a job has returned: its slice was cut at the end of
\* the grid and the job is completed
LastChunkCutAtGridEndWitness ==
    /\ ret.kind = "chunk" /\ ~ret.hasMore
    /\ jobs[ret.jobId].status = COMPLETED
    /\ jobs[ret.jobId].metadata.lastProcessedIndex > CHUNK_SIZE
    /\ jobs[ret.jobId].metadata.lastProcessedIndex < 2 * CHUNK_SIZE

\* C29: a pending job is claimed by one worker only: of two worker
\* processes at most one promotes a given pending job to running, so no job
\* has chunks processed by two workers at the same time.
ChunkOfJobInFlight(w, j) ==
    wpc[w] = "round" /\ j \in DOMAIN tasks[w] /\ tasks[w][j].pc # "done"
NoJobProcessedByTwoWorkers ==
    \A j \in JobIds : \A w \in Workers, v \in Workers :
        (ChunkOfJobInFlight(w, j) /\ ChunkOfJobInFlight(v, j)) => w = v

\* C30: two concurrent auto-trigger requests for the same uncovered point
\* create at most one job: under every interleaving of their checks and
\* inserts there are never two active jobs whose bounds both contain the
\* point.
ActiveJobsAround(lat, lng) ==
    {j \in JobIds : /\ IsActive(j)
                    /\ jobs[j].metadata.bounds # NoBounds
                    /\ BoundsContain(jobs[j].metadata.bounds, lat, lng)}
AtMostOneActiveJobAroundPoint ==
    \A p \in QueryPoints : Cardinality(ActiveJobsAround(p[1], p[2])) <= 1

\* the cache of worker w holds the calculator of the bounds b
CacheHolds(w, b) ==
    cachedCalculator[w] # NoCalculator /\ cachedCalculator[w].boundsKey = b

\* worker w starts a round of chunks that has a chunk of job j
ChunkStartsNow(w, j) ==
    wpc[w] # "round" /\ wpc'[w] = "round" /\ j \in DOMAIN tasks'[w]

\* the chunk of job j in worker w ends the bulk POI load it was waiting for
LoadsNow(w, j) ==
    /\ wpc[w] = "round" /\ j \in DOMAIN tasks[w]
    /\ tasks[w][j].pc \in {"batch", "progress"}
    /\ tasks[w][j].calculator = NoCalculator
    /\ ChunkSteps(w, j)

\* the bounds of job j in the rows worker w is about to process
BoundsInRound(w, j) == (CHOOSE r \in runningJobs'[w] : r.id = j).metadata.bounds

\* C31: while a worker processes the chunks of one job the bulk POI load is
\* performed once.  A chunk that finds the calculator of its job's bounds in
\* the cache takes it and waits for no load, every other chunk loads; a load
\* caches the calculator of the job's bounds; a chunk that was the only one
\* of its round and has more to do leaves that calculator in the cache; and
\* the cache keeps what it holds until the worker ends a load, completes a
\* job or is restarted.
BulkLoadOncePerJob ==
    [][\A w \in Workers :
        /\ \A j \in 1..MaxJobs :
              /\ ChunkStartsNow(w, j) =>
                    tasks'[w][j].calculator =
                        IF CacheHolds(w, BoundsInRound(w, j))
                        THEN cachedCalculator[w] ELSE NoCalculator
              /\ LoadsNow(w, j) =>
                    cachedCalculator'[w] = loadBatchCalculator(JobOf(w, j).metadata.bounds)
              /\ (/\ ChunkSteps(w, j) /\ DOMAIN tasks[w] = {j}
                  /\ tasks[w][j].pc = "progress" /\ HasMore(JobOf(w, j).metadata))
                  => cachedCalculator'[w] = loadBatchCalculator(JobOf(w, j).metadata.bounds)
        /\ cachedCalculator'[w] # cachedCalculator[w] =>
              \/ \E j \in 1..MaxJobs : LoadsNow(w, j)
              \/ /\ cachedCalculator'[w] = NoCalculator
                 /\ \/ \E j \in DOMAIN tasks[w] :
                          tasks[w][j].pc = "complete" /\ ChunkSteps(w, j)
                    \/ wpc[w] # "reset" /\ wpc'[w] = "reset" /\ ret' = NoRet
      ]_vars

\* a later chunk of a job starts with the calculator its first chunk built
LaterChunkReusesCalculatorWitness ==
    \E j \in DOMAIN tasks["w1"] :
        /\ wpc["w1"] = "round"
        /\ JobOf("w1", j).metadata.lastProcessedIndex > 0
        /\ tasks["w1"][j].pc = "batch" /\ tasks["w1"][j].i = 0
        /\ tasks["w1"][j].calculator = loadBatchCalculator(JobOf("w1", j).metadata.bounds)

\* C32: when one worker processes several running jobs in one round, a step
\* of the chunk of one job leaves the calculator the cache holds for another
\* job of the round where it is, and the calculator a batch scores with was
\* built from the bounds of the batch's own job.
CalculatorsArePerJob ==
    [][\A w \in Workers : \A j, k \in 1..MaxJobs :
          (/\ wpc[w] = "round" /\ j # k /\ {j, k} \subseteq DOMAIN tasks[w]
           /\ ChunkSteps(w, j))
          => /\ CacheHolds(w, JobOf(w, k).metadata.bounds)
                => cachedCalculator'[w] = cachedCalculator[w]
             /\ (tasks[w][j].pc = "batch" /\ j \in DOMAIN tasks'[w])
                => tasks'[w][j].calculator.boundsKey = JobOf(w, j).metadata.bounds
      ]_vars

\* C33: the grid generateGridPoints produces for the bounds of a job covers
\* the bounds: its smallest latitude and longitude are at most minLat and
\* minLng, its largest at least maxLat and maxLng.
GridCoversRegion ==
    \A w \in Workers : \A j \in DOMAIN tasks[w] :
        LET bounds == JobOf(w, j).metadata.bounds
            points == generateGridPoints(bounds, JobOf(w, j).metadata.gridStep)
        IN  /\ \E k \in DOMAIN points : points[k].lat <= bounds.minLat
            /\ \E k \in DOMAIN points : points[k].lat >= bounds.maxLat
            /\ \E k \in DOMAIN points : points[k].lng <= bounds.minLng
            /\ \E k \in DOMAIN points : points[k].lng >= bounds.maxLng

\* worker w executes markJobRunning on job j
PromotesNow(w, j) ==
    /\ wpc[w] = "mark" /\ wpc'[w] # "reset"
    /\ pendingJobs[w] # <<>> /\ Head(pendingJobs[w]) = j
    /\ pendingJobs'[w] = Tail(pendingJobs[w])

\* C34: pending jobs are promoted in creation order: when a worker marks a
\* job running, no job created before it is pending, and the job becomes
\* running; so a job that stale reclamation has reset is, while it is
\* pending, promoted before every job created after it.  Rows are created
\* in id order.
PromotionIsFifo ==
    [][\A w \in Workers : \A j \in JobIds :
          PromotesNow(w, j) =>
              /\ \A k \in JobIds : k < j => jobs[k].status # PENDING
              /\ jobs'[j].status = RUNNING
      ]_vars

\* C35: every POI counted toward the count of a category lies within the
\* radius of the scored point by exact distance, in the point engine as in
\* the batch calculator.
CountedPoisWithinRadius ==
    ret.kind = "counted" =>
        \A id \in DOMAIN ret.counted : \A p \in ret.counted[id] :
            calculateDistanceSquared(ret.lat, ret.lng, p[1], p[2])
                <= SCORE_RADIUS * SCORE_RADIUS

\* C36: in every reachable state a job with status completed has
\* lastProcessedIndex equal to the length of its grid and progress 100.
CompletedJobIsFullyProcessed ==
    \A j \in JobIds :
        jobs[j].status = COMPLETED =>
            /\ jobs[j].metadata.lastProcessedIndex = GridLength(j)
            /\ jobs[j].progress = 100

\* the heat cell of grid index k of job j is stored at the job's grid step
HasCell(j, k) ==
    \E c \in heatCells :
        /\ c.lat = CellOf(j, k).lat /\ c.lng = CellOf(j, k).lng
        /\ c.gridStep = jobs[j].metadata.gridStep

\* C37: while no scoring and no insert fails, in every reachable state, also
\* after kills, reclamations and resumed chunks, every grid index below the
\* persisted lastProcessedIndex of a job has a stored heat cell at the job's
\* grid step, and a completed job has a heat cell for every point of its
\* grid.
CellsBelowIndexArePersisted ==
    \A j \in JobIds :
        /\ \A k \in 0..(jobs[j].metadata.lastProcessedIndex - 1) : HasCell(j, k)
        /\ jobs[j].status = COMPLETED =>
              \A k \in 0..(GridLength(j) - 1) : HasCell(j, k)

\* a job of two chunks was reclaimed after its first chunk, promoted again
\* and completed by the resumed chunk: its first cell was written before it
\* was last started, its last cell after
CompletedAfterReclaimWitness ==
    \E j \in JobIds :
        /\ jobs[j].status = COMPLETED /\ jobs[j].startedAt > 0
        /\ GridLength(j) > CHUNK_SIZE
        /\ \E c \in heatCells :
              /\ c.lat = CellOf(j, 0).lat /\ c.lng = CellOf(j, 0).lng
              /\ c.computedAt < jobs[j].startedAt
        /\ \E c \in heatCells :
              /\ c.lat = CellOf(j, GridLength(j) - 1).lat
              /\ c.lng = CellOf(j, GridLength(j) - 1).lng
              /\ c.computedAt >= jobs[j].startedAt

\* C38: in every state reachable through the scheduler and the worker, a
\* running job has a startedAt and a pending job has none, so a running job
\* is taken by resetStaleJobs exactly when its startedAt is more than
\* STALE_JOB_MINUTES back.
StartedAtFollowsStatus ==
    \A j \in JobIds :
        /\ jobs[j].status = RUNNING => jobs[j].startedAt # NULL
        /\ jobs[j].status = PENDING => jobs[j].startedAt = NULL
        /\ jobs[j].status = RUNNING =>
              (IsStale(j) <=> jobs[j].startedAt < now - STALE_JOB_MINUTES)

\* a job that was reclaimed after its first chunk is running again, with the
\* time of its second promotion, while a later job is pending
RunningAgainAfterReclaimWitness ==
    /\ Len(jobs) = 2
    /\ jobs[1].status = RUNNING /\ jobs[1].startedAt > 0
    /\ progressAt[1] # NULL /\ progressAt[1] < jobs[1].startedAt
    /\ jobs[2].status = PENDING /\ jobs[2].startedAt = NULL

\* the chunk of job j in worker w ends because its bulk POI load failed
LoadFailsNow(w, j) ==
    /\ wpc[w] = "round" /\ j \in DOMAIN tasks[w] /\ tasks[w][j].pc # "done"
    /\ ret'.kind = "rejected" /\ ret'.client = w /\ ret'.jobId = j

\* C39: when the bulk POI load of a chunk fails, the chunk ends without
\* effect: no heat cell is written or changed, the job row keeps its
\* lastProcessedIndex, progress and status, the cache of the worker is left
\* as it was, and the chunk has processed nothing.
LoadFailureHasNoEffect ==
    [][\A w \in Workers : \A j \in 1..MaxJobs :
          LoadFailsNow(w, j) =>
              /\ heatCells' = heatCells /\ wrote' = {}
              /\ jobs' = jobs /\ progressAt' = progressAt
              /\ cachedCalculator' = cachedCalculator
              /\ tasks[w][j].calculator = NoCalculator
              /\ tasks[w][j].processed = 0 /\ tasks[w][j].visited = {}
              /\ j \in DOMAIN tasks'[w] =>
                    /\ tasks'[w][j].pc = "done" /\ ~tasks'[w][j].more
                    /\ tasks'[w][j].processed = 0
      ]_vars

\* the load of the first chunk of a running job has failed: the job is
\* running at index 0 with no heat cell and nothing in the cache
LoadFailedWitness ==
    /\ ret.kind = "rejected"
    /\ jobs[ret.jobId].status = RUNNING
    /\ jobs[ret.jobId].metadata.lastProcessedIndex = 0
    /\ jobs[ret.jobId].progress = 0
    /\ heatCells = {}
    /\ cachedCalculator[ret.client] = NoCalculator
====
